---- MODULE Spec2Model ----
(***************************************************************************)
(* Model of the trading-strategy simulator store (src/hooks/useSimulator). *)
(*                                                                         *)
(* Numbers.  Candle prices of the modelled datasets are whole numbers, so  *)
(* the ledger arithmetic of step() (cash, shares, portfolio value) is      *)
(* exact.  Indicator values are fixed-point numbers with Scale units per   *)
(* 1.0 (two decimals); every division of the source is a floor division    *)
(* on that grid.  An optional value (number | undefined) is <<>> when      *)
(* undefined and <<v>> when defined.  Arrays are functions on 0..n-1, as   *)
(* in the source; equitySeries and trades, which are only appended to,     *)
(* are sequences.                                                          *)
(***************************************************************************)
EXTENDS Integers, Sequences, FiniteSets, TLC

Scale == 10 * 10

undefined == <<>>
Some(v) == <<v>>
Defined(x) == x # undefined
Val(x) == x[1]

Length(a) == Cardinality(DOMAIN a)
EmptyArray == [i \in {} |-> 0]
Indices(n) == 0 .. (n - 1)

\* The array f as a value computed once, entry by entry.
Array(f) == f @@ EmptyArray

Max2(a, b) == IF a >= b THEN a ELSE b
Min2(a, b) == IF a <= b THEN a ELSE b
SetMax(S) == CHOOSE x \in S : \A y \in S : y <= x
SetMin(S) == CHOOSE x \in S : \A y \in S : x <= y

(***************************************************************************)
(* Indicator pipeline                                                      *)
(***************************************************************************)

\* values.filter(v => v !== undefined): the defined entries, in order.
FilterDefined(a) ==
    LET idx == {i \in DOMAIN a : Defined(a[i])}
        nth(j) == CHOOSE i \in idx : Cardinality({m \in idx : m < i}) = j
    IN  Array([j \in Indices(Cardinality(idx)) |-> Val(a[nth(j)])])

\* A re-expansion that reads compact at the original index.
ExpandByIndex(line, compact) ==
    Array([i \in DOMAIN line |->
              IF Defined(line[i]) /\ i \in DOMAIN compact THEN compact[i] ELSE undefined])

\* The re-expansion loops of computeMACD and computeStochastic: the k-th
\* defined entry of `line` receives compact[k].
Expand(line, compact) ==
    Array([i \in DOMAIN line |->
              IF Defined(line[i])
              THEN compact[Cardinality({m \in DOMAIN line : m < i /\ Defined(line[m])})]
              ELSE undefined])

ToArray(seq) == Array([i \in Indices(Len(seq)) |-> seq[i + 1]])

RECURSIVE SumRange(_, _, _)
SumRange(values, lo, hi) ==
    IF lo > hi THEN 0
    ELSE IF lo = hi THEN values[lo]
    ELSE LET mid == (lo + hi) \div 2
         IN  SumRange(values, lo, mid) + SumRange(values, mid + 1, hi)

\* The loop of computeSMA; st = [sum, out] before iteration i = Len(st.out).
RECURSIVE SmaLoop(_, _, _)
SmaLoop(values, window, st) ==
    LET i == Len(st.out)
        sum == st.sum + values[i] - (IF i >= window THEN values[i - window] ELSE 0)
    IN  IF i >= Length(values) THEN st.out
        ELSE SmaLoop(values, window,
                     [sum |-> sum,
                      out |-> Append(st.out, IF i >= window - 1
                                             THEN Some(sum \div window)
                                             ELSE undefined)])

\* An SMA whose window is centred one sample ahead.
computeSMAOneAhead(values, window) ==
    LET out == ToArray(SmaLoop(values, window, [sum |-> 0, out |-> <<>>]))
    IN  Array([i \in DOMAIN values |-> IF (i + 1) \in DOMAIN values THEN out[i + 1] ELSE out[i]])

\* An SMA over one sample more than asked for.
computeSMAWiderWindow(values, window) ==
    ToArray(SmaLoop(values, window + 1, [sum |-> 0, out |-> <<>>]))

computeSMA(values, window) ==
    ToArray(SmaLoop(values, window, [sum |-> 0, out |-> <<>>]))

\* out[i] = values[i] * multiplier + out[i-1] * (1 - multiplier), multiplier = 2 / (window + 1)
EmaStep(value, prev, window) == (2 * value + (window - 1) * prev) \div (window + 1)

\* The two loops of computeEMA: the SMA seed at window - 1, then the recurrence.
RECURSIVE EmaLoop(_, _, _)
EmaLoop(values, window, st) ==
    LET i == Len(st.out)
        sum == IF i < window THEN st.sum + values[i] ELSE st.sum
    IN  IF i >= Length(values) THEN st.out
        ELSE EmaLoop(values, window,
                     [sum |-> sum,
                      out |-> Append(st.out,
                                IF i < window - 1 THEN undefined
                                ELSE IF i = window - 1 THEN Some(sum \div window)
                                ELSE Some(EmaStep(values[i], Val(st.out[i]), window)))])

\* An EMA seeded with the first value instead of the SMA of the window.
computeEMASeededAtFirst(values, window) ==
    ToArray(EmaLoop(values, 1, [sum |-> 0, out |-> <<>>]))

computeEMA(values, window) ==
    ToArray(EmaLoop(values, window, [sum |-> 0, out |-> <<>>]))

computeMACD(values, fastPeriod, slowPeriod, signalPeriod) ==
    LET n == Length(values)
        emaFast == computeEMA(values, fastPeriod)
        emaSlow == computeEMA(values, slowPeriod)
        macdLine == Array([i \in Indices(n) |->
                        IF Defined(emaFast[i]) /\ Defined(emaSlow[i])
                        THEN Some(Val(emaFast[i]) - Val(emaSlow[i]))
                        ELSE undefined])
        macdSignal == computeEMA(FilterDefined(macdLine), signalPeriod)
        signal == Expand(macdLine, macdSignal)
        histogram == Array([i \in Indices(n) |->
                        IF Defined(macdLine[i]) /\ Defined(signal[i])
                        THEN Some(Val(macdLine[i]) - Val(signal[i]))
                        ELSE undefined])
    IN  [macdLine |-> macdLine, signal |-> signal, histogram |-> histogram]

\* Math.sqrt on the fixed-point grid: the largest r with r * r <= x.
RECURSIVE SqrtSearch(_, _, _)
SqrtSearch(x, lo, hi) ==
    IF lo >= hi THEN lo
    ELSE LET mid == (lo + hi + 1) \div 2
         IN  IF mid * mid <= x THEN SqrtSearch(x, mid, hi)
             ELSE SqrtSearch(x, lo, mid - 1)
Sqrt(x) == SqrtSearch(x, 0, Min2(x, 46340))

\* sum((val - mean)^2) / window over values[lo..hi], the division taken term by term.
RECURSIVE Variance(_, _, _, _, _)
Variance(values, mean, window, lo, hi) ==
    IF lo > hi THEN 0
    ELSE IF lo = hi THEN ((values[lo] - mean) * (values[lo] - mean)) \div window
    ELSE LET mid == (lo + hi) \div 2
         IN  Variance(values, mean, window, lo, mid)
               + Variance(values, mean, window, mid + 1, hi)

computeBollingerBands(values, window, stdDev) ==
    LET n == Length(values)
        sma == computeSMA(values, window)
        std(i) == Sqrt(Variance(values, Val(sma[i]), window, i - window + 1, i))
    IN  [upper |-> Array([i \in Indices(n) |->
                      IF i >= window - 1 THEN Some(Val(sma[i]) + stdDev * std(i))
                      ELSE undefined]),
         middle |-> sma,
         lower |-> Array([i \in Indices(n) |->
                      IF i >= window - 1 THEN Some(Val(sma[i]) - stdDev * std(i))
                      ELSE undefined])]

\* A stochastic that reads 0 on a window without range.
computeStochasticZeroRange(highs, lows, closes, kPeriod, dPeriod) ==
    LET n == Length(closes)
        highest(i) == SetMax({highs[j] : j \in (i - kPeriod + 1) .. i})
        lowest(i) == SetMin({lows[j] : j \in (i - kPeriod + 1) .. i})
        stochK == Array([i \in Indices(n) |->
                     IF i >= kPeriod - 1
                     THEN IF highest(i) # lowest(i)
                          THEN Some(((closes[i] - lowest(i)) * 100 * Scale)
                                      \div (highest(i) - lowest(i)))
                          ELSE Some(0)
                     ELSE undefined])
        stochD == computeSMA(FilterDefined(stochK), dPeriod)
    IN  [stochK |-> stochK, stochD |-> Expand(stochK, stochD)]

computeStochastic(highs, lows, closes, kPeriod, dPeriod) ==
    LET n == Length(closes)
        highest(i) == SetMax({highs[j] : j \in (i - kPeriod + 1) .. i})
        lowest(i) == SetMin({lows[j] : j \in (i - kPeriod + 1) .. i})
        stochK == Array([i \in Indices(n) |->
                     IF i >= kPeriod - 1
                     THEN IF highest(i) # lowest(i)
                          THEN Some(((closes[i] - lowest(i)) * 100 * Scale)
                                      \div (highest(i) - lowest(i)))
                          ELSE Some(50 * Scale)
                     ELSE undefined])
        stochD == computeSMA(FilterDefined(stochK), dPeriod)
    IN  [stochK |-> stochK, stochD |-> Expand(stochK, stochD)]

\* An RSI value that reads neutral when there was no loss.
RsiValueNeutralWithoutLoss(avgGain, avgLoss) ==
    IF avgLoss = 0 THEN 50 * Scale
    ELSE 100 * Scale - (100 * Scale * Scale) \div (Scale + (avgGain * Scale) \div avgLoss)

\* rs = avgGain / avgLoss, or +infinity when avgLoss = 0; 100 - 100 / (1 + rs).
RsiValue(avgGain, avgLoss) ==
    IF avgLoss = 0 THEN 100 * Scale
    ELSE 100 * Scale - (100 * Scale * Scale) \div (Scale + (avgGain * Scale) \div avgLoss)

\* The loop of computeRSI; st = [gain, loss, rsi] before iteration i = Len(st.rsi).
RECURSIVE RsiLoop(_, _, _)
RsiLoop(closes, window, st) ==
    LET i == Len(st.rsi)
        change == closes[i] - closes[i - 1]
        up == Max2(change, 0)
        down == Max2(-change, 0)
        gain == IF i < window THEN st.gain + up
                ELSE IF i = window THEN (st.gain + up) \div window
                ELSE (st.gain * (window - 1) + up) \div window
        loss == IF i < window THEN st.loss + down
                ELSE IF i = window THEN (st.loss + down) \div window
                ELSE (st.loss * (window - 1) + down) \div window
    IN  IF i >= Length(closes) THEN st.rsi
        ELSE RsiLoop(closes, window,
                     [gain |-> gain, loss |-> loss,
                      rsi |-> Append(st.rsi, IF i >= window THEN RsiValue(gain, loss)
                                             ELSE 50 * Scale)])

\* An RSI that starts its averages at the first transition.
computeRSINoWarmUp(closes, window) ==
    IF Length(closes) = 0 THEN EmptyArray
    ELSE ToArray(RsiLoop(closes, 1, [gain |-> 0, loss |-> 0, rsi |-> <<50 * Scale>>]))

computeRSI(closes, window) ==
    IF Length(closes) = 0 THEN EmptyArray
    ELSE ToArray(RsiLoop(closes, window, [gain |-> 0, loss |-> 0, rsi |-> <<50 * Scale>>]))

(***************************************************************************)
(* Strategy decision engine                                                *)
(***************************************************************************)

StrategyNames ==
    {"SMA_CROSSOVER", "EMA_CROSSOVER", "RSI", "MACD", "BOLLINGER_BANDS",
     "STOCHASTIC", "MEAN_REVERSION", "BUY_AND_HOLD"}

Decision(action, reason) == [action |-> action, reason |-> reason]

\* A crossover rule that looks at the current candle alone.
CrossoverIgnoresPrev(c, hasPrev, prev, a, b, bullish, bearish, none) ==
    IF Defined(c[a]) /\ Defined(c[b])
    THEN IF Val(c[a]) > Val(c[b])
         THEN Decision("BUY", <<bullish, Val(c[a]), Val(c[b])>>)
         ELSE IF Val(c[a]) < Val(c[b])
              THEN Decision("SELL", <<bearish, Val(c[a]), Val(c[b])>>)
              ELSE Decision("HOLD", <<none>>)
    ELSE Decision("HOLD", <<none>>)

\* A crossover rule that wants short strictly on the other side at prev.
CrossoverStrictPrev(c, hasPrev, prev, a, b, bullish, bearish, none) ==
    IF Defined(c[a]) /\ Defined(c[b]) /\ hasPrev /\ Defined(prev[a]) /\ Defined(prev[b])
    THEN IF Val(prev[a]) < Val(prev[b]) /\ Val(c[a]) > Val(c[b])
         THEN Decision("BUY", <<bullish, Val(c[a]), Val(c[b])>>)
         ELSE IF Val(prev[a]) > Val(prev[b]) /\ Val(c[a]) < Val(c[b])
              THEN Decision("SELL", <<bearish, Val(c[a]), Val(c[b])>>)
              ELSE Decision("HOLD", <<none>>)
    ELSE Decision("HOLD", <<none>>)

\* The guard and the two crossover tests shared by the SMA, EMA and MACD
\* cases: short = c[a], long = c[b]; prev?.x is undefined without a prev.
Crossover(c, hasPrev, prev, a, b, bullish, bearish, none) ==
    IF Defined(c[a]) /\ Defined(c[b]) /\ hasPrev /\ Defined(prev[a]) /\ Defined(prev[b])
    THEN IF Val(prev[a]) <= Val(prev[b]) /\ Val(c[a]) > Val(c[b])
         THEN Decision("BUY", <<bullish, Val(c[a]), Val(c[b])>>)
         ELSE IF Val(prev[a]) >= Val(prev[b]) /\ Val(c[a]) < Val(c[b])
              THEN Decision("SELL", <<bearish, Val(c[a]), Val(c[b])>>)
              ELSE Decision("HOLD", <<none>>)
    ELSE Decision("HOLD", <<none>>)

RsiDecision(value) ==
    IF value < 30 * Scale THEN Decision("BUY", <<"RSI oversold signal", value>>)
    ELSE IF value > 70 * Scale THEN Decision("SELL", <<"RSI overbought signal", value>>)
    ELSE Decision("HOLD", <<"RSI neutral", value>>)

\* A Bollinger rule that tests the upper band first.
BollingerDecisionUpperFirst(c) ==
    IF Defined(c.bollingerUpper) /\ Defined(c.bollingerLower)
    THEN IF c.close * Scale >= Val(c.bollingerUpper)
         THEN Decision("SELL", <<"Price at upper Bollinger Band", c.close, Val(c.bollingerUpper)>>)
         ELSE IF c.close * Scale <= Val(c.bollingerLower)
              THEN Decision("BUY", <<"Price at lower Bollinger Band", c.close, Val(c.bollingerLower)>>)
              ELSE Decision("HOLD", <<"Price within Bollinger Bands">>)
    ELSE Decision("HOLD", <<"Price within Bollinger Bands">>)

BollingerDecision(c) ==
    IF Defined(c.bollingerUpper) /\ Defined(c.bollingerLower)
    THEN IF c.close * Scale <= Val(c.bollingerLower)
         THEN Decision("BUY", <<"Price at lower Bollinger Band", c.close, Val(c.bollingerLower)>>)
         ELSE IF c.close * Scale >= Val(c.bollingerUpper)
              THEN Decision("SELL", <<"Price at upper Bollinger Band", c.close, Val(c.bollingerUpper)>>)
              ELSE Decision("HOLD", <<"Price within Bollinger Bands">>)
    ELSE Decision("HOLD", <<"Price within Bollinger Bands">>)

\* A stochastic rule that reads a missing %K or %D as 0.
StochasticDecisionZeroFill(c) ==
    LET k == IF Defined(c.stochK) THEN Val(c.stochK) ELSE 0
        d == IF Defined(c.stochD) THEN Val(c.stochD) ELSE 0
    IN  IF k < 20 * Scale /\ d < 20 * Scale
        THEN Decision("BUY", <<"Stochastic oversold", k, d>>)
        ELSE IF k > 80 * Scale /\ d > 80 * Scale
             THEN Decision("SELL", <<"Stochastic overbought", k, d>>)
             ELSE Decision("HOLD", <<"Stochastic in neutral range">>)

StochasticDecision(c) ==
    IF Defined(c.stochK) /\ Defined(c.stochD)
    THEN IF Val(c.stochK) < 20 * Scale /\ Val(c.stochD) < 20 * Scale
         THEN Decision("BUY", <<"Stochastic oversold", Val(c.stochK), Val(c.stochD)>>)
         ELSE IF Val(c.stochK) > 80 * Scale /\ Val(c.stochD) > 80 * Scale
              THEN Decision("SELL", <<"Stochastic overbought", Val(c.stochK), Val(c.stochD)>>)
              ELSE Decision("HOLD", <<"Stochastic in neutral range">>)
    ELSE Decision("HOLD", <<"Stochastic in neutral range">>)

\* deviation = ((close - middle) / middle) * 100, in fixed point.
MeanReversionDecision(c) ==
    IF Defined(c.bollingerMiddle)
    THEN LET deviation == ((c.close * Scale - Val(c.bollingerMiddle)) * 100 * Scale)
                             \div Val(c.bollingerMiddle)
         IN  IF deviation < -2 * Scale
             THEN Decision("BUY", <<"Price below MA - mean reversion buy", -deviation>>)
             ELSE IF deviation > 2 * Scale
                  THEN Decision("SELL", <<"Price above MA - mean reversion sell", deviation>>)
                  ELSE Decision("HOLD", <<"Price near moving average">>)
    ELSE Decision("HOLD", <<"Price near moving average">>)

\* decide with a default case that buys.
decideUnknownBuys(strategy, idx, series, rsi) ==
    IF idx \notin DOMAIN series THEN Decision("HOLD", <<"No candle">>)
    ELSE
      LET c == series[idx]
          hasPrev == (idx - 1) \in DOMAIN series
          prev == IF hasPrev THEN series[idx - 1] ELSE c
      IN  CASE strategy = "SMA_CROSSOVER" ->
                 Crossover(c, hasPrev, prev, "smaShort", "smaLong",
                           "SMA bullish crossover", "SMA bearish crossover",
                           "No SMA crossover signal")
            [] strategy = "EMA_CROSSOVER" ->
                 Crossover(c, hasPrev, prev, "emaShort", "emaLong",
                           "EMA bullish crossover", "EMA bearish crossover",
                           "No EMA crossover signal")
            [] strategy = "RSI" -> RsiDecision(rsi[idx])
            [] strategy = "MACD" ->
                 Crossover(c, hasPrev, prev, "macdLine", "macdSignal",
                           "MACD bullish crossover", "MACD bearish crossover",
                           "No MACD crossover signal")
            [] strategy = "BOLLINGER_BANDS" -> BollingerDecision(c)
            [] strategy = "STOCHASTIC" -> StochasticDecision(c)
            [] strategy = "MEAN_REVERSION" -> MeanReversionDecision(c)
            [] strategy = "BUY_AND_HOLD" ->
                 IF idx = 0 THEN Decision("BUY", <<"Initial buy and hold">>)
                 ELSE Decision("HOLD", <<"Hold position">>)
            [] OTHER -> Decision("BUY", <<"Unknown strategy">>)

decide(strategy, idx, series, rsi) ==
    IF idx \notin DOMAIN series THEN Decision("HOLD", <<"No candle">>)
    ELSE
      LET c == series[idx]
          hasPrev == (idx - 1) \in DOMAIN series
          prev == IF hasPrev THEN series[idx - 1] ELSE c
      IN  CASE strategy = "SMA_CROSSOVER" ->
                 Crossover(c, hasPrev, prev, "smaShort", "smaLong",
                           "SMA bullish crossover", "SMA bearish crossover",
                           "No SMA crossover signal")
            [] strategy = "EMA_CROSSOVER" ->
                 Crossover(c, hasPrev, prev, "emaShort", "emaLong",
                           "EMA bullish crossover", "EMA bearish crossover",
                           "No EMA crossover signal")
            [] strategy = "RSI" -> RsiDecision(rsi[idx])
            [] strategy = "MACD" ->
                 Crossover(c, hasPrev, prev, "macdLine", "macdSignal",
                           "MACD bullish crossover", "MACD bearish crossover",
                           "No MACD crossover signal")
            [] strategy = "BOLLINGER_BANDS" -> BollingerDecision(c)
            [] strategy = "STOCHASTIC" -> StochasticDecision(c)
            [] strategy = "MEAN_REVERSION" -> MeanReversionDecision(c)
            [] strategy = "BUY_AND_HOLD" ->
                 IF idx = 0 THEN Decision("BUY", <<"Initial buy and hold">>)
                 ELSE Decision("HOLD", <<"Hold position">>)
            [] OTHER -> Decision("HOLD", <<"Unknown strategy">>)

(***************************************************************************)
(* CSV texts and the loader                                                *)
(*                                                                         *)
(* A CSV text is [key, parseError, columns, rows]: key names the text,      *)
(* parseError says that Papa.parse reports errors, columns is the header   *)
(* line.  The timestamp cell of a row is empty (undefined) or holds a      *)
(* time t; the cell holding 0 is the text "0".  Every other cell of the    *)
(* modelled texts holds a whole number.                                    *)
(***************************************************************************)

RequiredColumns == {"timestamp", "open", "high", "low", "close", "volume"}

Row(t, c) == [timestamp |-> Some(t), open |-> c, high |-> c + 2, low |-> c - 2,
              close |-> c, volume |-> 1000]

BlankRow(c) == [Row(0, c) EXCEPT !.timestamp = undefined]

RowsOf(closes) == [i \in 1 .. Len(closes) |-> Row(i, closes[i])]

Csv(key, rows) ==
    [key |-> key, parseError |-> FALSE, columns |-> RequiredColumns, rows |-> rows]

LongCloses ==
    <<190, 191, 192, 193, 194, 194, 195, 196, 197, 198, 199, 200, 201, 201,
      202, 203, 204, 205, 194, 184, 173, 162, 151, 141, 130, 210, 290, 281,
      272, 263, 254, 246, 237, 228, 219, 210, 210, 290, 253, 217, 180, 120,
      140, 160>>

SampleCloses ==
    <<150, 151, 152, 153, 154, 155, 156, 157, 158, 159, 160, 161, 162, 163,
      164, 165, 166, 167, 168, 169, 140, 110, 150, 190>>

\* The rows of this file are not in chronological order, one row has an
\* empty timestamp cell and one has the timestamp 0.
SampleRows ==
    LET r == RowsOf(SampleCloses)
    IN  <<r[2], r[1], BlankRow(999)>> \o SubSeq(r, 4, Len(r)) \o <<Row(0, 888), r[3]>>

ShortCloses == <<120, 80, 130>>

SingleCloses == <<100>>

CsvTexts ==
    [sample |-> Csv("sample", SampleRows),
     long |-> Csv("long", RowsOf(LongCloses)),
     short |-> Csv("short", RowsOf(ShortCloses)),
     single |-> Csv("single", RowsOf(SingleCloses)),
     empty |-> Csv("empty", <<>>),
     nocols |-> [Csv("nocols", RowsOf(ShortCloses)) EXCEPT !.columns = {"timestamp", "close"}],
     notime |-> Csv("notime", <<BlankRow(100), BlankRow(101)>>),
     zeros |-> Csv("zeros", <<Row(0, 100), Row(0, 101)>>),
     garbled |-> [Csv("garbled", RowsOf(ShortCloses)) EXCEPT !.parseError = TRUE]]

\* row.timestamp && ...: the cell, a string, is not empty.
ValidRows(rows) == {i \in 1 .. Len(rows) : Defined(rows[i].timestamp)}

validateCsvData(text) ==
    IF text.parseError THEN [isValid |-> FALSE, error |-> "CSV parsing error"]
    ELSE IF Len(text.rows) = 0 THEN [isValid |-> FALSE, error |-> "No data rows found"]
    ELSE IF RequiredColumns \ text.columns # {}
         THEN [isValid |-> FALSE, error |-> "Missing required columns"]
    ELSE IF Cardinality(ValidRows(text.rows)) = 0
         THEN [isValid |-> FALSE, error |-> "No valid data rows found"]
    ELSE [isValid |-> TRUE, recordCount |-> Cardinality(ValidRows(text.rows))]

\* .filter((r) => r.timestamp) on the rows parsed with dynamicTyping: the cell
\* is neither empty nor the number 0.
Truthy(cell) == Defined(cell) /\ Val(cell) # 0

\* rows.sort((a, b) => time(a) - time(b)): a stable sort by timestamp.
\* Row i goes to the position given by the number of rows that precede it.
SortRows(rows) ==
    LET n == Len(rows)
        time(i) == Val(rows[i].timestamp)
        rank(i) == Cardinality({j \in 1 .. n :
                       \/ time(j) < time(i)
                       \/ time(j) = time(i) /\ j < i})
    IN  Array([k \in 1 .. n |-> rows[CHOOSE i \in 1 .. n : rank(i) = k - 1]])

\* StartIndex without the warm-up: the replay starts at the first candle.
StartIndexFirstCandle(series) == 0

\* candles.findIndex(c => c.smaShort !== undefined && c.smaLong !== undefined),
\* with -1 replaced by 0.
StartIndex(series) ==
    LET valid == {i \in DOMAIN series :
                     Defined(series[i].smaShort) /\ Defined(series[i].smaLong)}
    IN  IF valid = {} THEN 0 ELSE SetMin(valid)

InitialCash == 10000

\* new Date().toISOString(): no candle has this timestamp.
Now == 0

\* [{ timestamp: candles[startIndex]?.timestamp ?? new Date().toISOString(), value }]
SeedEquity(series, startIndex) ==
    <<[timestamp |-> IF startIndex \in DOMAIN series
                     THEN series[startIndex].timestamp ELSE Now,
       value |-> InitialCash]>>

Decorate(rows) ==
    LET n == Len(rows)
        closes == Array([i \in Indices(n) |-> rows[i + 1].close * Scale])
        highs == Array([i \in Indices(n) |-> rows[i + 1].high * Scale])
        lows == Array([i \in Indices(n) |-> rows[i + 1].low * Scale])
        smaShort == computeSMA(closes, 10)
        smaLong == computeSMA(closes, 20)
        emaShort == computeEMA(closes, 12)
        emaLong == computeEMA(closes, 26)
        macd == computeMACD(closes, 12, 26, 9)
        bollinger == computeBollingerBands(closes, 20, 2)
        stochastic == computeStochastic(highs, lows, closes, 14, 3)
    IN  [i \in Indices(n) |->
            [timestamp |-> Val(rows[i + 1].timestamp),
             open |-> rows[i + 1].open,
             high |-> rows[i + 1].high,
             low |-> rows[i + 1].low,
             close |-> rows[i + 1].close,
             volume |-> rows[i + 1].volume,
             smaShort |-> smaShort[i],
             smaLong |-> smaLong[i],
             emaShort |-> emaShort[i],
             emaLong |-> emaLong[i],
             macdLine |-> macd.macdLine[i],
             macdSignal |-> macd.signal[i],
             macdHistogram |-> macd.histogram[i],
             bollingerUpper |-> bollinger.upper[i],
             bollingerMiddle |-> bollinger.middle[i],
             bollingerLower |-> bollinger.lower[i],
             stochK |-> stochastic.stochK[i],
             stochD |-> stochastic.stochD[i]]]

\* { id: dataset?.id || 'custom-' + Date.now(), ..., data: text, recordCount,
\*   dateRange, ...dataset }
datasetWithMetadata(dataset, key, recordCount, series) ==
    [id |-> IF dataset.id # "" THEN dataset.id ELSE "custom-now",
     category |-> IF dataset.category # "" THEN dataset.category ELSE "custom",
     path |-> dataset.path,
     data |-> key,
     recordCount |-> recordCount,
     dateRange |-> IF Length(series) > 0
                   THEN <<series[0].timestamp, series[Length(series) - 1].timestamp>>
                   ELSE <<>>]

\* closes = candles.map((c) => c.close), on the fixed-point grid.
Closes(series) == Array([i \in DOMAIN series |-> series[i].close * Scale])

\* The object buildStateFromCsvText returns, from the decorated candles and
\* the RSI array.
BuiltState(decorated, rsi, dataset) ==
    [ok |-> TRUE,
     candles |-> decorated,
     rsiSeries |-> Array([i \in DOMAIN decorated |->
                      [timestamp |-> decorated[i].timestamp, value |-> rsi[i]]]),
     macdSeries |-> Array([i \in DOMAIN decorated |->
                      [timestamp |-> decorated[i].timestamp,
                       value |-> IF Defined(decorated[i].macdLine)
                                 THEN Val(decorated[i].macdLine) ELSE 0,
                       signal |-> decorated[i].macdSignal,
                       histogram |-> decorated[i].macdHistogram]]),
     stochasticSeries |-> Array([i \in DOMAIN decorated |->
                      [timestamp |-> decorated[i].timestamp,
                       value |-> IF Defined(decorated[i].stochK)
                                 THEN Val(decorated[i].stochK) ELSE 50 * Scale,
                       signal |-> decorated[i].stochD]]),
     bollingerSeries |-> Array([i \in DOMAIN decorated |->
                      [timestamp |-> decorated[i].timestamp,
                       value |-> IF Defined(decorated[i].bollingerMiddle)
                                 THEN Val(decorated[i].bollingerMiddle)
                                 ELSE decorated[i].close * Scale,
                       upper |-> decorated[i].bollingerUpper,
                       lower |-> decorated[i].bollingerLower]]),
     startIndex |-> StartIndex(decorated),
     equitySeries |-> SeedEquity(decorated, StartIndex(decorated)),
     dataset |-> dataset]

\* buildStateFromCsvText from computeRSI on.
Assemble(decorated, key, recordCount, dataset) ==
    BuiltState(decorated, computeRSI(Closes(decorated), 14),
               datasetWithMetadata(dataset, key, recordCount, decorated))

\* The result of buildStateFromCsvText, or the error it throws.
buildStateFromCsvText(text, dataset) ==
    LET validation == validateCsvData(text)
    IN  IF ~validation.isValid THEN [ok |-> FALSE, error |-> validation.error]
        ELSE Assemble(Array(Decorate(SortRows(
                          SelectSeq(text.rows, LAMBDA r : Truthy(r.timestamp))))),
                      text.key, validation.recordCount, dataset)

(***************************************************************************)
(* Inputs of the operations                                                *)
(***************************************************************************)

null == <<>>

\* A Dataset; an absent path or data is the empty string.
Dataset(id, category, path, data) ==
    [id |-> id, category |-> category, path |-> path, data |-> data,
     recordCount |-> 0, dateRange |-> <<>>]

NoDataset == Dataset("", "", "", "")

\* The catalog, cut down to its first entry, the one initialize() loads.
BUILT_IN_DATASETS == {Dataset("sample", "stock", "/sample_data.csv", "")}

\* What the server holds under a path.
ServedText(path) == "sample"

\* The files the user picks for an upload, by name; each holds the text of that key.
UploadFiles == {"short", "notime"}

\* The texts handed to loadFromCsvText.
PastedTexts == {"short", "garbled"}

SpeedChoices == {100, 500}

\* The names setStrategyName is called with: the select offers the eight
\* strategies; the store accepts any string.
StrategyChoices == {"SMA_CROSSOVER", "BOLLINGER_BANDS"}

\* The inputs of the ledger runs: every strategy and an unknown name, and
\* texts of every length.
LedgerStrategies == StrategyNames \cup {"UNKNOWN"}
LedgerTexts == {"long", "sample", "short", "single", "zeros", "nocols"}

MaxTimers == 2
MaxPending == 1

\* buildStateFromCsvText is a function of the text alone but for the metadata.
BuiltStates ==
    Array([key \in DOMAIN CsvTexts |-> buildStateFromCsvText(CsvTexts[key], NoDataset)])

WithMetadata(built, key, dataset) ==
    IF built.ok
    THEN [built EXCEPT !.dataset =
            datasetWithMetadata(dataset, key, built.dataset.recordCount, built.candles)]
    ELSE built

Build(key, dataset) == WithMetadata(BuiltStates[key], key, dataset)

(***************************************************************************)
(* The store (useSimulatorStore), the module-level timer handle, and the   *)
(* environment: the live interval timers and the loads in flight.          *)
(***************************************************************************)

VARIABLES
    candles, rsiSeries, macdSeries, stochasticSeries, bollingerSeries,
    equitySeries, trades, currentIndex, cash, shares, lastExplanation,
    portfolioValue, strategyName, isPlaying, speedMs,
    currentDataset, availableDatasets, isLoadingDataset, datasetError,
    intervalId,
    timers,      \* live window.setInterval timers: id -> interval in ms
    pending,     \* loads awaiting their fetch or file read
    lastOp,      \* history: the operation that ran last
    steps,       \* history: steps executed since the ledger was last initialised
    call,        \* the arguments of a call of a pure function, or null
    result       \* what that call returned, or null before it returns

seriesVars == <<candles, rsiSeries, macdSeries, stochasticSeries, bollingerSeries>>
ledgerVars == <<equitySeries, trades, currentIndex, cash, shares, lastExplanation,
                portfolioValue>>
playVars == <<isPlaying, intervalId, timers>>
loadVars == <<currentDataset, availableDatasets, isLoadingDataset, datasetError>>
probeVars == <<call, result>>
storeVars == <<seriesVars, ledgerVars, playVars, loadVars, strategyName, speedMs,
               pending, lastOp, steps>>
vars == <<storeVars, probeVars>>

\* The store as create() builds it.
StoreInit ==
    /\ candles = EmptyArray
    /\ rsiSeries = EmptyArray
    /\ macdSeries = EmptyArray
    /\ stochasticSeries = EmptyArray
    /\ bollingerSeries = EmptyArray
    /\ equitySeries = <<>>
    /\ trades = <<>>
    /\ currentIndex = 0
    /\ isPlaying = FALSE
    /\ speedMs = 500
    /\ cash = InitialCash
    /\ shares = 0
    /\ lastExplanation = <<>>
    /\ strategyName = "SMA_CROSSOVER"
    /\ portfolioValue = InitialCash
    /\ currentDataset = null
    /\ availableDatasets = BUILT_IN_DATASETS
    /\ isLoadingDataset = FALSE
    /\ datasetError = null
    /\ intervalId = null
    /\ timers = EmptyArray
    /\ pending = {}
    /\ lastOp = "create"
    /\ steps = 0

Init == StoreInit /\ call = <<>> /\ result = <<>>

LastIndex == Length(candles) - 1

(***************************************************************************)
(* step                                                                    *)
(***************************************************************************)

\* if (currentIndex >= candles.length - 1) return
AtEnd(index, series) == index >= Length(series) - 1

\* Quantity rounded up instead of down.
QuantityRoundedUp(money, price) == (money + price - 1) \div price

\* One share per BUY.
QuantityOneShare(money, price) == IF money >= price THEN 1 ELSE 0

\* Math.floor(cash / price)
Quantity(money, price) == money \div price

BuyExecutes(decision, money, price) ==
    decision.action = "BUY" /\ money >= price /\ Quantity(money, price) > 0

\* SellExecutes without the test shares > 0.
SellExecutesUnguarded(decision, money, price, held) ==
    /\ ~(decision.action = "BUY" /\ money >= price)
    /\ decision.action = "SELL"

SellExecutes(decision, money, price, held) ==
    /\ ~(decision.action = "BUY" /\ money >= price)
    /\ decision.action = "SELL" /\ held > 0

\* CashAfter with a SELL that pays for all shares but one.
CashAfterSkimsSell(decision, money, held, price) ==
    IF BuyExecutes(decision, money, price)
    THEN money - Quantity(money, price) * price
    ELSE IF SellExecutes(decision, money, price, held)
         THEN money + (held - 1) * price
         ELSE money

CashAfter(decision, money, held, price) ==
    IF BuyExecutes(decision, money, price)
    THEN money - Quantity(money, price) * price
    ELSE IF SellExecutes(decision, money, price, held)
         THEN money + held * price
         ELSE money

\* SharesAfter with a SELL that keeps one share back.
SharesAfterKeepsOne(decision, money, held, price) ==
    IF BuyExecutes(decision, money, price)
    THEN held + Quantity(money, price)
    ELSE IF SellExecutes(decision, money, price, held) THEN 1 ELSE held

SharesAfter(decision, money, held, price) ==
    IF BuyExecutes(decision, money, price)
    THEN held + Quantity(money, price)
    ELSE IF SellExecutes(decision, money, price, held) THEN 0 ELSE held

\* TradesAfter with the new trade put at the head of the log.
TradesAfterPrepends(log, decision, money, held, price, index) ==
    IF BuyExecutes(decision, money, price)
    THEN <<[index |-> index, type |-> "BUY", price |-> price,
            reason |-> decision.reason]>> \o log
    ELSE IF SellExecutes(decision, money, price, held)
         THEN <<[index |-> index, type |-> "SELL", price |-> price,
                 reason |-> decision.reason]>> \o log
         ELSE log

TradesAfter(log, decision, money, held, price, index) ==
    IF BuyExecutes(decision, money, price)
    THEN Append(log, [index |-> index, type |-> "BUY", price |-> price,
                      reason |-> decision.reason])
    ELSE IF SellExecutes(decision, money, price, held)
         THEN Append(log, [index |-> index, type |-> "SELL", price |-> price,
                           reason |-> decision.reason])
         ELSE log

ExplanationAfter(decision, money, held, price) ==
    IF BuyExecutes(decision, money, price)
    THEN <<"BUY", Quantity(money, price), price, decision.reason>>
    ELSE IF SellExecutes(decision, money, price, held)
         THEN <<"SELL", held, price, decision.reason>>
         ELSE decision.reason

\* The decision step() obtains in the current state, for the next index.
NextDecision ==
    decide(strategyName, currentIndex + 1, candles,
           [i \in DOMAIN rsiSeries |-> rsiSeries[i].value])

\* StepEffect with the equity point stamped with the candle being left.
StepEffectStaleTimestamp ==
    LET nextIndex == currentIndex + 1
        decision == NextDecision
        price == candles[nextIndex].close
        newCash == CashAfter(decision, cash, shares, price)
        newShares == SharesAfter(decision, cash, shares, price)
        value == newCash + newShares * price
    IN  /\ currentIndex' = nextIndex
        /\ cash' = newCash
        /\ shares' = newShares
        /\ lastExplanation' = ExplanationAfter(decision, cash, shares, price)
        /\ trades' = TradesAfter(trades, decision, cash, shares, price, nextIndex)
        /\ portfolioValue' = value
        /\ equitySeries' = Append(equitySeries,
                                  [timestamp |-> candles[currentIndex].timestamp,
                                   value |-> value])
        /\ steps' = steps + 1

\* The body of step() past its guard.
\* StepEffect valuing the shares at the close of the candle being left.
StepEffectStalePrice ==
    LET nextIndex == currentIndex + 1
        decision == NextDecision
        price == candles[nextIndex].close
        newCash == CashAfter(decision, cash, shares, price)
        newShares == SharesAfter(decision, cash, shares, price)
        value == newCash + newShares * candles[currentIndex].close
    IN  /\ currentIndex' = nextIndex
        /\ cash' = newCash
        /\ shares' = newShares
        /\ lastExplanation' = ExplanationAfter(decision, cash, shares, price)
        /\ trades' = TradesAfter(trades, decision, cash, shares, price, nextIndex)
        /\ portfolioValue' = value
        /\ equitySeries' = Append(equitySeries,
                                  [timestamp |-> candles[nextIndex].timestamp,
                                   value |-> value])
        /\ steps' = steps + 1

StepEffect ==
    LET nextIndex == currentIndex + 1
        decision == NextDecision
        price == candles[nextIndex].close
        newCash == CashAfter(decision, cash, shares, price)
        newShares == SharesAfter(decision, cash, shares, price)
        value == newCash + newShares * price
    IN  /\ currentIndex' = nextIndex
        /\ cash' = newCash
        /\ shares' = newShares
        /\ lastExplanation' = ExplanationAfter(decision, cash, shares, price)
        /\ trades' = TradesAfter(trades, decision, cash, shares, price, nextIndex)
        /\ portfolioValue' = value
        /\ equitySeries' = Append(equitySeries,
                                  [timestamp |-> candles[nextIndex].timestamp,
                                   value |-> value])
        /\ steps' = steps + 1

\* step without the early return doing nothing but recording an equity point.
stepRecordsAtEnd ==
    IF AtEnd(currentIndex, candles)
    THEN /\ equitySeries' = Append(equitySeries,
                                   [timestamp |-> Now, value |-> portfolioValue])
         /\ UNCHANGED <<trades, currentIndex, cash, shares, lastExplanation,
                        portfolioValue, steps>>
    ELSE StepEffect

step ==
    IF AtEnd(currentIndex, candles)
    THEN UNCHANGED <<ledgerVars, steps>>
    ELSE StepEffect

Step ==
    /\ step
    /\ lastOp' = "step"
    /\ UNCHANGED probeVars
    /\ UNCHANGED <<seriesVars, playVars, loadVars, strategyName, speedMs, pending>>

(***************************************************************************)
(* play, pause and the periodic driver                                     *)
(***************************************************************************)

\* if (intervalId !== null) window.clearInterval(intervalId)
Cleared(live, id) ==
    IF id # null THEN [t \in DOMAIN live \ {Val(id)} |-> live[t]] ELSE live

\* pause(): the timer is cleared, then intervalId = null and isPlaying = false.
pause ==
    /\ timers' = Cleared(timers, intervalId)
    /\ intervalId' = null
    /\ isPlaying' = FALSE

\* The handle window.setInterval returns: one that names no live timer.
FreshTimer(live) == SetMin((1 .. (MaxTimers + 1)) \ DOMAIN live)

\* play() past its isPlaying guard, on timer table `live`, with interval ms.
StartDriver(live, ms) ==
    /\ isPlaying' = TRUE
    /\ intervalId' = Some(FreshTimer(live))
    /\ timers' = [t \in DOMAIN live \cup {FreshTimer(live)} |->
                    IF t \in DOMAIN live THEN live[t] ELSE ms]

play ==
    IF isPlaying THEN UNCHANGED playVars ELSE StartDriver(timers, speedMs)

Play ==
    /\ isPlaying \/ Cardinality(DOMAIN timers) < MaxTimers
    /\ play
    /\ lastOp' = "play"
    /\ UNCHANGED probeVars
    /\ UNCHANGED <<seriesVars, ledgerVars, loadVars, strategyName, speedMs, pending, steps>>

Pause ==
    /\ pause
    /\ lastOp' = "pause"
    /\ UNCHANGED probeVars
    /\ UNCHANGED <<seriesVars, ledgerVars, loadVars, strategyName, speedMs, pending, steps>>

\* Tick without the test for the last candle: the driver never stops itself.
TickNeverPauses(t) ==
    /\ t \in DOMAIN timers
    /\ step /\ UNCHANGED playVars
    /\ lastOp' = "tick"
    /\ UNCHANGED probeVars
    /\ UNCHANGED <<seriesVars, loadVars, strategyName, speedMs, pending>>

\* One firing of the tick closure of a live timer.
Tick(t) ==
    /\ t \in DOMAIN timers
    /\ IF currentIndex >= Length(candles) - 1
       THEN pause /\ UNCHANGED <<ledgerVars, steps>>
       ELSE step /\ UNCHANGED playVars
    /\ lastOp' = "tick"
    /\ UNCHANGED probeVars
    /\ UNCHANGED <<seriesVars, loadVars, strategyName, speedMs, pending>>

(***************************************************************************)
(* reset, setStrategyName, setSpeedMs                                      *)
(***************************************************************************)

\* ResetEquity that leaves the curve of the run in place.
ResetEquityKeepsCurve(series) ==
    IF Length(series) # 0 THEN equitySeries ELSE <<>>

\* candles.length ? [{ timestamp: candles[startIndex].timestamp, value: 10000 }] : []
ResetEquity(series) ==
    IF Length(series) # 0 THEN SeedEquity(series, StartIndex(series)) ELSE <<>>

\* reset that rewinds to the first candle.
resetToFirstCandle ==
    /\ currentIndex' = 0
    /\ trades' = <<>>
    /\ cash' = InitialCash
    /\ shares' = 0
    /\ lastExplanation' = <<>>
    /\ portfolioValue' = InitialCash
    /\ equitySeries' = ResetEquity(candles)
    /\ steps' = 0

\* reset that leaves the shares in place.
resetKeepsShares ==
    /\ currentIndex' = StartIndex(candles)
    /\ trades' = <<>>
    /\ cash' = InitialCash
    /\ UNCHANGED shares
    /\ lastExplanation' = <<>>
    /\ portfolioValue' = InitialCash
    /\ equitySeries' = ResetEquity(candles)
    /\ steps' = 0

\* reset that leaves the trade log in place.
resetKeepsTrades ==
    /\ currentIndex' = StartIndex(candles)
    /\ UNCHANGED trades
    /\ cash' = InitialCash
    /\ shares' = 0
    /\ lastExplanation' = <<>>
    /\ portfolioValue' = InitialCash
    /\ equitySeries' = ResetEquity(candles)
    /\ steps' = 0

reset ==
    /\ currentIndex' = StartIndex(candles)
    /\ trades' = <<>>
    /\ cash' = InitialCash
    /\ shares' = 0
    /\ lastExplanation' = <<>>
    /\ portfolioValue' = InitialCash
    /\ equitySeries' = ResetEquity(candles)
    /\ steps' = 0

Reset ==
    /\ reset
    /\ lastOp' = "reset"
    /\ UNCHANGED probeVars
    /\ UNCHANGED <<seriesVars, playVars, loadVars, strategyName, speedMs, pending>>

SetStrategyName(n) ==
    /\ IF isPlaying THEN pause ELSE UNCHANGED playVars
    /\ strategyName' = n
    /\ reset
    /\ lastOp' = "setStrategyName"
    /\ UNCHANGED probeVars
    /\ UNCHANGED <<seriesVars, loadVars, speedMs, pending>>

\* pause() and play() in sequence when the simulation was playing.
SetSpeedMs(ms) ==
    /\ speedMs' = ms
    /\ IF isPlaying
       THEN StartDriver(Cleared(timers, intervalId), ms)
       ELSE UNCHANGED playVars
    /\ lastOp' = "setSpeedMs"
    /\ UNCHANGED probeVars
    /\ UNCHANGED <<seriesVars, ledgerVars, loadVars, strategyName, pending, steps>>

(***************************************************************************)
(* Dataset loads                                                           *)
(***************************************************************************)

\* The set({...}) of a successful load in loadDataset and uploadCustomDataset.
InstallBuilt(built) ==
    /\ candles' = built.candles
    /\ rsiSeries' = built.rsiSeries
    /\ macdSeries' = built.macdSeries
    /\ stochasticSeries' = built.stochasticSeries
    /\ bollingerSeries' = built.bollingerSeries
    /\ equitySeries' = built.equitySeries
    /\ currentIndex' = built.startIndex
    /\ trades' = <<>>
    /\ cash' = InitialCash
    /\ shares' = 0
    /\ lastExplanation' = <<>>
    /\ portfolioValue' = InitialCash
    /\ currentDataset' = Some(built.dataset)
    /\ datasetError' = null
    /\ steps' = 0

\* loadDataset from buildStateFromCsvText on: the set({...}) of the try block,
\* or the catch block when buildStateFromCsvText throws.
FinishLoadDataset(built) ==
    IF built.ok
    THEN /\ InstallBuilt(built)
         /\ isLoadingDataset' = FALSE
         /\ UNCHANGED availableDatasets
    ELSE /\ isLoadingDataset' = FALSE
         /\ datasetError' = Some(built.error)
         /\ currentDataset' = null
         /\ UNCHANGED <<seriesVars, ledgerVars, availableDatasets, steps>>

\* The catch block of loadDataset for an error thrown before the build.
FailLoadDataset(message) ==
    /\ isLoadingDataset' = FALSE
    /\ datasetError' = Some(message)
    /\ currentDataset' = null
    /\ UNCHANGED <<seriesVars, ledgerVars, availableDatasets, steps>>

\* The datasets loadDataset is called with: the entries on offer, and a
\* dataset object with neither data nor path.
LoadableDatasets == availableDatasets \cup {Dataset("blank", "custom", "", "")}

\* set({ isLoadingDataset: true, datasetError: null }), and the load waits.
Await(p) ==
    /\ Cardinality(pending) < MaxPending
    /\ pending' = pending \cup {p}
    /\ isLoadingDataset' = TRUE
    /\ datasetError' = null
    /\ UNCHANGED <<seriesVars, ledgerVars, currentDataset, availableDatasets, steps>>

\* loadDataset(dataset) up to its first await, or to its end when there is none.
LoadDataset(d) ==
    /\ IF d.data # ""
       THEN FinishLoadDataset(Build(d.data, d)) /\ UNCHANGED pending
       ELSE IF d.path # ""
            THEN Await([op |-> "loadDataset", dataset |-> d])
            ELSE FailLoadDataset("Dataset has no data or path") /\ UNCHANGED pending
    /\ lastOp' = "loadDataset"
    /\ UNCHANGED probeVars
    /\ UNCHANGED <<playVars, strategyName, speedMs>>

\* The fetch of a loadDataset in flight answers: with the text, or not ok.
FetchResolves(p, ok) ==
    /\ p \in pending /\ p.op = "loadDataset"
    /\ pending' = pending \ {p}
    /\ IF ok
       THEN FinishLoadDataset(Build(ServedText(p.dataset.path), p.dataset))
       ELSE FailLoadDataset("Failed to load dataset")
    /\ lastOp' = IF ok THEN "loadDataset.fetched" ELSE "loadDataset.failed"
    /\ UNCHANGED probeVars
    /\ UNCHANGED <<playVars, strategyName, speedMs>>

\* initialize(): loadDataset on the first entry of the catalog.
Initialize ==
    /\ lastOp = "create"
    /\ Await([op |-> "loadDataset",
              dataset |-> Dataset("sample", "stock", "/sample_data.csv", "")])
    /\ lastOp' = "initialize"
    /\ UNCHANGED probeVars
    /\ UNCHANGED <<playVars, strategyName, speedMs>>

\* uploadCustomDataset(file) up to await file.text().
UploadCustomDataset(f) ==
    /\ Await([op |-> "upload", file |-> f])
    /\ lastOp' = "uploadCustomDataset"
    /\ UNCHANGED probeVars
    /\ UNCHANGED <<playVars, strategyName, speedMs>>

\* uploadCustomDataset from buildStateFromCsvText on.
FinishUpload(built) ==
    IF built.ok
    THEN /\ InstallBuilt(built)
         /\ availableDatasets' = availableDatasets \cup {built.dataset}
         /\ isLoadingDataset' = FALSE
    ELSE /\ isLoadingDataset' = FALSE
         /\ datasetError' = Some(built.error)
         /\ UNCHANGED <<seriesVars, ledgerVars, currentDataset, availableDatasets, steps>>

\* The text of the file arrives: the rest of uploadCustomDataset.
UploadResolves(p) ==
    /\ p \in pending /\ p.op = "upload"
    /\ pending' = pending \ {p}
    /\ FinishUpload(Build(p.file, Dataset("custom-" \o p.file, "custom", "", "")))
    /\ lastOp' = "uploadCustomDataset.read"
    /\ UNCHANGED probeVars
    /\ UNCHANGED <<playVars, strategyName, speedMs>>

\* loadFromCsvText(text) on the result of buildStateFromCsvText; its set()
\* also writes isPlaying: false.
loadFromCsvText(built) ==
    IF built.ok
    THEN /\ InstallBuilt(built)
         /\ isPlaying' = FALSE
         /\ UNCHANGED <<intervalId, timers, availableDatasets, isLoadingDataset>>
    ELSE /\ datasetError' = Some(built.error)
         /\ UNCHANGED <<seriesVars, ledgerVars, playVars, currentDataset,
                        availableDatasets, isLoadingDataset, steps>>

LoadFromCsvText(key) ==
    /\ loadFromCsvText(Build(key, NoDataset))
    /\ lastOp' = "loadFromCsvText"
    /\ UNCHANGED probeVars
    /\ UNCHANGED <<strategyName, speedMs, pending>>

(***************************************************************************)
(* Specification                                                           *)
(***************************************************************************)

Next ==
    \/ Step
    \/ Play
    \/ Pause
    \/ \E t \in DOMAIN timers : Tick(t)
    \/ Reset
    \/ \E n \in StrategyChoices : SetStrategyName(n)
    \/ \E ms \in SpeedChoices : SetSpeedMs(ms)
    \/ Initialize
    \/ \E d \in LoadableDatasets : LoadDataset(d)
    \/ \E p \in pending, ok \in BOOLEAN : FetchResolves(p, ok)
    \/ \E f \in UploadFiles : UploadCustomDataset(f)
    \/ \E p \in pending : UploadResolves(p)
    \/ \E key \in PastedTexts : LoadFromCsvText(key)

Spec == Init /\ [][Next]_vars

\* The ledger under every strategy on every text: stepping by hand and by the
\* driver, resets, strategy changes and synchronous loads.
LedgerNext ==
    \/ Step
    \/ Play
    \/ Pause
    \/ \E t \in DOMAIN timers : Tick(t)
    \/ Reset
    \/ \E n \in LedgerStrategies : SetStrategyName(n)
    \/ \E key \in LedgerTexts : LoadFromCsvText(key)

LedgerSpec == Init /\ [][LedgerNext]_vars

\* The texts loaded in the playback runs.
DriverTexts == {"short", "sample"}

\* A tick of some live timer.
DriverTick == \E t \in DOMAIN timers : Tick(t)

\* Playback left to run: once play() has been called nothing but the driver,
\* manual steps and speed changes act until the driver has stopped; resets,
\* strategy changes and loads happen while the simulation is paused.
DriverNext ==
    \/ Step
    \/ Play
    \/ DriverTick
    \/ \E ms \in SpeedChoices : SetSpeedMs(ms)
    \/ ~isPlaying /\ Pause
    \/ ~isPlaying /\ Reset
    \/ \E n \in StrategyChoices : ~isPlaying /\ SetStrategyName(n)
    \/ \E key \in DriverTexts : ~isPlaying /\ LoadFromCsvText(key)

\* window.setInterval keeps calling tick while its timer is live.
DriverSpec == Init /\ [][DriverNext]_vars /\ WF_vars(DriverTick)

(***************************************************************************)
(* Calls of decide                                                         *)
(*                                                                         *)
(* decide is a pure function of (strategy, idx, candles, rsi).  A call is   *)
(* drawn from candles whose indicator fields are undefined or lie on a     *)
(* small grid, and returns once.                                           *)
(***************************************************************************)

\* Indicator readings of the drawn candles: undefined, or a value in the
\* (0, 100) range of the oscillators.
ProbeReadings == {undefined, Some(10 * Scale), Some(20 * Scale), Some(90 * Scale)}
ProbeCloses == {10, 20, 90}
ProbeRsi == {20 * Scale, 50 * Scale, 80 * Scale}
ProbeIndices == 0 .. 1
ProbeStrategies == StrategyNames \cup {"UNKNOWN"}

\* The lower of two readings, the higher, and their middle; undefined if
\* either is: the bands of a candle are defined together, lower <= upper.
LowerOf(a, b) == IF Defined(a) /\ Defined(b) THEN Some(Min2(Val(a), Val(b))) ELSE undefined
UpperOf(a, b) == IF Defined(a) /\ Defined(b) THEN Some(Max2(Val(a), Val(b))) ELSE undefined
MiddleOf(a, b) == IF Defined(a) /\ Defined(b) THEN Some((Val(a) + Val(b)) \div 2) ELSE undefined

\* A decorated candle whose short series read a and whose long series read b.
ProbeCandle(t, close, a, b) ==
    [timestamp |-> t, open |-> close, high |-> close, low |-> close,
     close |-> close, volume |-> 1000,
     smaShort |-> a, smaLong |-> b,
     emaShort |-> a, emaLong |-> b,
     macdLine |-> a, macdSignal |-> b,
     macdHistogram |-> IF Defined(a) /\ Defined(b) THEN Some(Val(a) - Val(b)) ELSE undefined,
     bollingerUpper |-> UpperOf(a, b),
     bollingerMiddle |-> MiddleOf(a, b),
     bollingerLower |-> LowerOf(a, b),
     stochK |-> a, stochD |-> b]

ProbeCandles(t) ==
    {ProbeCandle(t, close, a, b) : close \in ProbeCloses, a \in ProbeReadings, b \in ProbeReadings}

\* Candle arrays of length 0, 1 and 2, each with an rsi array of its length;
\* idx = 1 lies beyond the arrays of length 0 and 1.
ProbeSeries ==
    {EmptyArray}
      \cup {ToArray(<<c>>) : c \in ProbeCandles(1)}
      \cup {ToArray(<<p, c>>) : p \in ProbeCandles(1), c \in ProbeCandles(2)}

DecideCalls ==
    {[strategy |-> strategy, idx |-> idx, series |-> series,
      rsi |-> Array([i \in DOMAIN series |-> value])] :
        strategy \in ProbeStrategies, idx \in ProbeIndices,
        series \in ProbeSeries, value \in ProbeRsi}

\* decide(strategy, idx, candles, rsi) is called and returns.
Decide ==
    /\ result = <<>>
    /\ result' = <<decide(call.strategy, call.idx, call.series, call.rsi)>>
    /\ UNCHANGED <<storeVars, call>>

DecideInit == StoreInit /\ call \in DecideCalls /\ result = <<>>

DecideSpec == DecideInit /\ [][Decide]_vars

(***************************************************************************)
(* Calls of the indicator functions                                        *)
(*                                                                         *)
(* Each indicator is a pure function of its arrays and periods.  A call is *)
(* drawn from short arrays over a few prices and from periods below, at    *)
(* and above their lengths, and returns once.                              *)
(***************************************************************************)

ProbePrices == {1 * Scale, 2 * Scale, 5 * Scale}
MaxProbeLen == 4
ProbePeriods == {1, 2, 3, 6}
ProbeSpreads == {0, Scale}

\* The arrays of length 0 .. MaxProbeLen over ProbePrices, and 1, 2, 3, 4, 5.
ProbeValues ==
    {ToArray(seq) : seq \in UNION {[1 .. n -> ProbePrices] : n \in 0 .. MaxProbeLen}}
      \cup {ToArray(<<1 * Scale, 2 * Scale, 3 * Scale, 4 * Scale, 5 * Scale>>)}

Shifted(values, by) == Array([i \in DOMAIN values |-> values[i] + by])

IndicatorCalls ==
    {[fn |-> fn, args |-> <<values, window>>] :
        fn \in {"computeSMA", "computeEMA", "computeRSI"},
        values \in ProbeValues, window \in ProbePeriods}
      \cup {[fn |-> "computeBollingerBands", args |-> <<values, window, 2>>] :
               values \in ProbeValues, window \in ProbePeriods}
      \cup {[fn |-> "computeMACD", args |-> <<values, periods[1], periods[2], periods[3]>>] :
               values \in ProbeValues,
               periods \in {q \in ProbePeriods \X ProbePeriods \X ProbePeriods : q[1] < q[2]}}
      \cup {[fn |-> "computeStochastic",
             args |-> <<Shifted(values, spread), Shifted(values, -spread), values,
                        periods[1], periods[2]>>] :
               values \in ProbeValues, spread \in ProbeSpreads,
               periods \in ProbePeriods \X ProbePeriods}

\* The call returns `value`.
Return(value) ==
    /\ result = <<>>
    /\ result' = <<value>>
    /\ UNCHANGED <<storeVars, call>>

ComputeSMA ==
    /\ call.fn = "computeSMA"
    /\ Return(computeSMA(call.args[1], call.args[2]))

ComputeEMA ==
    /\ call.fn = "computeEMA"
    /\ Return(computeEMA(call.args[1], call.args[2]))

ComputeRSI ==
    /\ call.fn = "computeRSI"
    /\ Return(computeRSI(call.args[1], call.args[2]))

ComputeBollingerBands ==
    /\ call.fn = "computeBollingerBands"
    /\ Return(computeBollingerBands(call.args[1], call.args[2], call.args[3]))

ComputeMACD ==
    /\ call.fn = "computeMACD"
    /\ Return(computeMACD(call.args[1], call.args[2], call.args[3], call.args[4]))

ComputeStochastic ==
    /\ call.fn = "computeStochastic"
    /\ Return(computeStochastic(call.args[1], call.args[2], call.args[3],
                                call.args[4], call.args[5]))

IndicatorInit == StoreInit /\ call \in IndicatorCalls /\ result = <<>>

IndicatorNext ==
    \/ ComputeSMA
    \/ ComputeEMA
    \/ ComputeRSI
    \/ ComputeBollingerBands
    \/ ComputeMACD
    \/ ComputeStochastic

IndicatorSpec == IndicatorInit /\ [][IndicatorNext]_vars

(***************************************************************************)
(* Calls of buildStateFromCsvText on pairs of texts                        *)
(*                                                                         *)
(* The loader is a function of the text.  A call builds the states of two  *)
(* texts: a base text and the same text cut or changed after some row.     *)
(***************************************************************************)

\* A row whose high and low equal its close, and a row whose close lies
\* above its high: the loader asks only for numbers.
FlatRow(t, c) == [Row(t, c) EXCEPT !.high = c, !.low = c]
SpikeRow(t, c) == [Row(t, c) EXCEPT !.close = c + 50]

RisingCloses == [i \in 1 .. 16 |-> 100 + i * i]
FallingCloses == [i \in 1 .. 16 |-> 400 - i * i]
LevelCloses == [i \in 1 .. 16 |-> 100]

\* The base texts, by name.
PipelineRows ==
    [long |-> RowsOf(LongCloses),
     rising |-> RowsOf(RisingCloses),
     falling |-> RowsOf(FallingCloses),
     level |-> RowsOf(LevelCloses),
     flat |-> [i \in 1 .. 16 |-> FlatRow(i, 100)],
     spike |-> [i \in 1 .. 16 |-> IF i = 15 THEN SpikeRow(i, 100) ELSE Row(i, 100 + i)]]

\* rows cut after its first `keep` rows, and rows with every later row
\* moved up by `by`.
CutAfter(rows, keep) == SubSeq(rows, 1, keep)
BumpAfter(rows, keep, by) ==
    [i \in 1 .. Len(rows) |->
        IF i <= keep THEN rows[i]
        ELSE [rows[i] EXCEPT !.open = @ + by, !.high = @ + by,
                              !.low = @ + by, !.close = @ + by]]
ProbeBump == 37

\* The numbers of rows a text can keep and still lose some.
Keeps(name) == 1 .. (Len(PipelineRows[name]) - 1)

PipelineCalls ==
    UNION {{[name |-> name, left |-> PipelineRows[name], right |-> PipelineRows[name]]}
             \cup {[name |-> name, left |-> PipelineRows[name],
                    right |-> CutAfter(PipelineRows[name], keep)] : keep \in Keeps(name)}
             \cup {[name |-> name, left |-> PipelineRows[name],
                    right |-> BumpAfter(PipelineRows[name], keep, ProbeBump)] :
                      keep \in Keeps(name)} :
           name \in DOMAIN PipelineRows}

\* buildStateFromCsvText(text) is called on both texts and returns.
BuildPair ==
    /\ result = <<>>
    /\ result' = <<[left |-> buildStateFromCsvText(Csv("left", call.left), NoDataset),
                    right |-> buildStateFromCsvText(Csv("right", call.right), NoDataset)]>>
    /\ UNCHANGED <<storeVars, call>>

PipelineInit == StoreInit /\ call \in PipelineCalls /\ result = <<>>

PipelineSpec == PipelineInit /\ [][BuildPair]_vars

(***************************************************************************)
(* Properties of the ledger                                                *)
(***************************************************************************)

\* This transition is a step(), called by hand or by the driver, that got
\* past its early return: there is a later candle to move to.
Stepped == lastOp' \in {"step", "tick"} /\ currentIndex < Length(candles) - 1

\* The close of the candle a step moves to.
TargetPrice == candles[currentIndex + 1].close

\* The decision the last executed step obtained: decide is a function of the
\* strategy, the index and the series, none of which the step changes.
LastDecision ==
    decide(strategyName, currentIndex, candles,
           [i \in DOMAIN rsiSeries |-> rsiSeries[i].value])

LastTrade == trades[Len(trades)]

\* trades' is trades with exactly one trade of the given type appended, for
\* the target index at the target price.
OneTradeAppended(type) ==
    /\ Len(trades') = Len(trades) + 1
    /\ SubSeq(trades', 1, Len(trades)) = trades
    /\ trades'[Len(trades')].type = type
    /\ trades'[Len(trades')].index = currentIndex + 1
    /\ trades'[Len(trades')].price = TargetPrice

\* C1: step() called when currentIndex is already the last candle index, or
\* when the candle series is empty, changes nothing: cash, shares, trades,
\* equitySeries, currentIndex, portfolioValue and lastExplanation are the same
\* before and after.
StepAtEndIsNoOp ==
    [][(lastOp' = "step"
        /\ (Length(candles) = 0 \/ currentIndex = Length(candles) - 1))
       => UNCHANGED <<cash, shares, trades, equitySeries, currentIndex,
                      portfolioValue, lastExplanation>>]_vars

\* A step() was called on the last candle of a loaded series: no step has
\* executed since the load, and the call left the curve at its seed point.
StepAtEndIsNoOpWitness ==
    /\ lastOp = "step" /\ steps = 0
    /\ Length(candles) > 0 /\ currentIndex = Length(candles) - 1
    /\ Len(equitySeries) = 1

\* C2: every step() executed while currentIndex is below the last index moves
\* currentIndex up by exactly 1 and appends exactly one equity point, whatever
\* the decision; the point has the timestamp of the new candle and the value
\* cash + shares * close, with cash and shares as the step leaves them.
StepAdvancesAndRecords ==
    [][Stepped =>
        /\ currentIndex' = currentIndex + 1
        /\ Len(equitySeries') = Len(equitySeries) + 1
        /\ SubSeq(equitySeries', 1, Len(equitySeries)) = equitySeries
        /\ equitySeries'[Len(equitySeries')] =
               [timestamp |-> candles[currentIndex + 1].timestamp,
                value |-> cash' + shares' * TargetPrice]]_vars

\* A step has just recorded a point while shares are held, after a trade and
\* at least one more step.
StepAdvancesAndRecordsWitness ==
    /\ lastOp = "step" /\ shares > 0 /\ Len(trades) > 0
    /\ Len(equitySeries) > 2
    /\ equitySeries[Len(equitySeries)].value = cash + shares * candles[currentIndex].close
    /\ equitySeries[Len(equitySeries)].value # InitialCash

\* C3: when step() obtains a BUY decision and cash >= price, the quantity is
\* floor(cash / price), the largest q with q * price <= cash, and if it is
\* positive the step takes exactly quantity * price from cash, adds exactly
\* quantity to shares and appends exactly one BUY trade with the target index
\* and that price.
BuyFillsWholeShares ==
    [][(Stepped /\ NextDecision.action = "BUY" /\ cash >= TargetPrice) =>
        LET quantity == CHOOSE q \in 0 .. cash :
                            q * TargetPrice <= cash /\ cash < (q + 1) * TargetPrice
        IN  quantity > 0 =>
                /\ cash' = cash - quantity * TargetPrice
                /\ shares' = shares + quantity
                /\ OneTradeAppended("BUY")]_vars

\* A step has just bought on top of an earlier purchase, leaving small change.
BuyFillsWholeSharesWitness ==
    /\ lastOp \in {"step", "tick"} /\ Len(trades) >= 2
    /\ LastTrade.type = "BUY" /\ LastTrade.index = currentIndex
    /\ trades[Len(trades) - 1].type = "BUY"
    /\ shares > 1 /\ cash > 0 /\ cash < LastTrade.price

\* C4: when step() obtains a SELL decision and shares > 0, the step adds
\* exactly shares * price to cash, sets shares to 0 and appends exactly one
\* SELL trade with the target index.
SellLiquidatesAll ==
    [][(Stepped /\ NextDecision.action = "SELL" /\ shares > 0) =>
        /\ cash' = cash + shares * TargetPrice
        /\ shares' = 0
        /\ OneTradeAppended("SELL")]_vars

\* A step has just sold a position built by two purchases.
SellLiquidatesAllWitness ==
    /\ lastOp \in {"step", "tick"} /\ Len(trades) >= 3
    /\ LastTrade.type = "SELL" /\ LastTrade.index = currentIndex
    /\ shares = 0 /\ cash > InitialCash

\* C5: a step() whose decision is HOLD, or BUY with cash < price, or SELL with
\* shares = 0, leaves cash, shares and the trade log as they are and raises no
\* error, while currentIndex and the equity series advance by one.
NoTradeStepKeepsLedger ==
    [][(Stepped /\ \/ NextDecision.action = "HOLD"
                   \/ NextDecision.action = "BUY" /\ cash < TargetPrice
                   \/ NextDecision.action = "SELL" /\ shares = 0) =>
        /\ UNCHANGED <<cash, shares, trades, datasetError>>
        /\ currentIndex' = currentIndex + 1
        /\ Len(equitySeries') = Len(equitySeries) + 1]_vars

\* A step has just met a BUY decision it could not afford: the position of
\* the earlier purchase and the small change are still there.
NoTradeStepKeepsLedgerWitness ==
    /\ lastOp \in {"step", "tick"} /\ steps > 1
    /\ LastDecision.action = "BUY"
    /\ cash < candles[currentIndex].close
    /\ shares > 0 /\ Len(trades) = 1 /\ LastTrade.index < currentIndex

\* C6: under any sequence of steps, resets, strategy changes, play, pause,
\* ticks and dataset loads, every reachable state has cash >= 0 and shares a
\* whole number >= 0.
LedgerNeverNegative == cash >= 0 /\ shares >= 0 /\ shares \in Nat

\* The driver has just bought: shares are held and cash is below one share.
LedgerNeverNegativeWitness ==
    /\ lastOp = "tick" /\ shares > 0 /\ Len(trades) > 0
    /\ LastTrade.index = currentIndex /\ cash < LastTrade.price

\* The transition starts the ledger afresh: a reset, a strategy change or a
\* load that installs a series.
Reinitialised ==
    \/ lastOp' \in {"reset", "setStrategyName"}
    \/ lastOp' = "loadFromCsvText" /\ datasetError' = null

\* C7: between two resets the trade log is append-only with strictly
\* increasing candle indices: a transition appends at most one trade, changes
\* or removes no entry, and a trade it appends has an index greater than that
\* of every earlier trade.
TradeLogAppendOnly ==
    [][~Reinitialised =>
        \/ trades' = trades
        \/ /\ Len(trades') = Len(trades) + 1
           /\ SubSeq(trades', 1, Len(trades)) = trades
           /\ \A i \in 1 .. Len(trades) : trades[i].index < trades'[Len(trades')].index]_vars

\* A fourth trade has just been appended to the log.
TradeLogAppendOnlyWitness ==
    /\ lastOp \in {"step", "tick"} /\ Len(trades) = 4
    /\ LastTrade.index = currentIndex
    /\ \A i \in 1 .. 3 : trades[i].index < trades[i + 1].index

\* C8, as stated: in every reachable state the length of equitySeries is the
\* number of steps executed since the last reset, dataset load or strategy
\* change, plus one seed point.
EquityLengthCountsSteps == Len(equitySeries) = steps + 1

\* C8, amended: in every reachable state whose candle series is not empty the
\* length of equitySeries is the number of steps executed since the last
\* reset, dataset load or strategy change, plus one seed point.
EquityLengthCountsStepsOnCandles ==
    Length(candles) > 0 => Len(equitySeries) = steps + 1

\* The driver has executed its third step since the ledger was initialised.
EquityLengthCountsStepsWitness ==
    /\ lastOp = "tick" /\ steps = 3 /\ Length(candles) > 0
    /\ Len(equitySeries) = 4

\* C9, as stated: reset() called in any reachable state, the initial one
\* included, yields trades.length = 0 and equitySeries.length = 1.
ResetLeavesOneSeed ==
    [][lastOp' = "reset" => Len(trades') = 0 /\ Len(equitySeries') = 1]_vars

\* C9, amended: reset() called in any reachable state yields trades.length = 0,
\* and equitySeries.length = 1 when the candle series is not empty; on an
\* empty candle series, as in the initial state before any dataset has been
\* loaded, it yields an empty equitySeries.
ResetLeavesOneSeedOnCandles ==
    [][lastOp' = "reset" =>
        /\ Len(trades') = 0
        /\ Len(equitySeries') = IF Length(candles) > 0 THEN 1 ELSE 0]_vars

\* reset() has just run on a loaded series while the driver is live.
ResetLeavesOneSeedWitness ==
    /\ lastOp = "reset" /\ Length(candles) > 0 /\ isPlaying
    /\ Len(trades) = 0 /\ Len(equitySeries) = 1

BothSMADefined(candle) == Defined(candle.smaShort) /\ Defined(candle.smaLong)

\* C10: after reset() on a candle series that is not empty cash = 10000,
\* shares = 0, portfolioValue = 10000, the trade log is empty, currentIndex is
\* the first index at which both the short and the long SMA are defined (19
\* when the series has at least 20 candles, otherwise 0), and the single
\* equity point has that candle's timestamp and the value 10000, under every
\* strategy.
ResetRestartsAtWarmUp ==
    [][(lastOp' = "reset" /\ Length(candles) > 0) =>
        /\ cash' = 10000 /\ shares' = 0 /\ portfolioValue' = 10000
        /\ trades' = <<>>
        /\ currentIndex' = IF Length(candles) >= 20 THEN 19 ELSE 0
        /\ \A i \in 0 .. currentIndex' - 1 : ~BothSMADefined(candles[i])
        /\ Length(candles) >= 20 => BothSMADefined(candles[currentIndex'])
        /\ equitySeries' = <<[timestamp |-> candles[currentIndex'].timestamp,
                              value |-> 10000]>>]_vars

\* reset() has just run on a series of at least 20 candles under a strategy
\* that reads neither SMA.
ResetRestartsAtWarmUpWitness ==
    /\ lastOp = "reset" /\ Length(candles) >= 20
    /\ strategyName = "RSI"
    /\ currentIndex = 19 /\ cash = 10000 /\ trades = <<>>

(***************************************************************************)
(* Properties of resets, loads and the driver                              *)
(***************************************************************************)

\* The transition completes a dataset load that installed a series.
LoadSucceeded ==
    \/ lastOp' = "loadFromCsvText" /\ datasetError' = null
    \/ /\ lastOp' \in {"loadDataset", "loadDataset.fetched", "uploadCustomDataset.read"}
       /\ datasetError' = null /\ ~isLoadingDataset'

\* The ledger reset() leaves on a candle series.
LedgerAfterReset(series) ==
    [equitySeries |-> ResetEquity(series), trades |-> <<>>,
     currentIndex |-> StartIndex(series), cash |-> InitialCash, shares |-> 0]

\* C11: after setStrategyName(n) or a successful dataset load the ledger is
\* the one reset() leaves on the resulting candle series: empty trade log,
\* cash 10000, shares 0, the seed equity point, currentIndex at the warm-up
\* start, whatever steps ran before.
StrategyChangeAndLoadReset ==
    [][(lastOp' = "setStrategyName" \/ LoadSucceeded) =>
        [equitySeries |-> equitySeries', trades |-> trades',
         currentIndex |-> currentIndex', cash |-> cash', shares |-> shares']
            = LedgerAfterReset(candles')]_vars

\* C12: after any sequence of play, pause, setSpeedMs, setStrategyName, reset,
\* step and dataset loads at most one periodic driver, a live setInterval
\* timer, exists.
AtMostOneDriver == Cardinality(DOMAIN timers) <= 1

\* The operation that ran last was a reset, a strategy change or a load that
\* installed a series: every live timer was started before it.
FreshlyInstalled ==
    \/ lastOp \in {"reset", "setStrategyName"}
    \/ lastOp = "loadFromCsvText" /\ datasetError = null
    \/ /\ lastOp \in {"loadDataset", "loadDataset.fetched", "uploadCustomDataset.read"}
       /\ datasetError = null /\ ~isLoadingDataset

\* C13: reset(), setStrategyName() and every dataset load stop the periodic
\* driver before they replace the series or the portfolio: a tick of a timer
\* started before the reset or load never executes step() on the state it
\* installed.
NoStaleTickAfterReset ==
    [][(FreshlyInstalled /\ lastOp' = "tick") => UNCHANGED ledgerVars]_vars

\* C14: under any interleaving of manual step() calls and driver ticks each
\* step runs as a unit (step() is synchronous, so no other callback runs
\* inside it): on a loaded series the timestamps of equitySeries are exactly
\* those of candles[start .. currentIndex], in order, no candle skipped and
\* none recorded twice.
EquityFollowsCandles ==
    Length(candles) > 0 =>
        /\ Len(equitySeries) = currentIndex - StartIndex(candles) + 1
        /\ \A k \in 1 .. Len(equitySeries) :
               equitySeries[k].timestamp =
                   candles[StartIndex(candles) + k - 1].timestamp

\* A manual step has just run between the ticks of a live driver.
EquityFollowsCandlesWitness ==
    /\ lastOp = "step" /\ isPlaying /\ DOMAIN timers # {}
    /\ steps >= 3 /\ Len(equitySeries) = steps + 1
    /\ currentIndex < Length(candles) - 1

\* C15: if play() has been called and the driver keeps ticking, with no
\* reset, load or strategy change, then eventually currentIndex is the last
\* candle index, the driver is cancelled and isPlaying is false; and no tick
\* executes a step once currentIndex is the last index.
PlaybackRunsToEnd ==
    /\ (isPlaying /\ Length(candles) > 0)
           ~> (currentIndex = Length(candles) - 1 /\ ~isPlaying /\ DOMAIN timers = {})
    /\ [][(lastOp' = "tick" /\ currentIndex = Length(candles) - 1)
              => UNCHANGED ledgerVars]_vars

\* The driver has stepped to the last candle and stopped itself.
PlaybackRunsToEndWitness ==
    /\ lastOp = "tick" /\ ~isPlaying /\ DOMAIN timers = {} /\ intervalId = null
    /\ Length(candles) >= 20 /\ currentIndex = Length(candles) - 1
    /\ steps = currentIndex - StartIndex(candles)

\* C16: pause() cancels the periodic driver if one exists and sets isPlaying
\* to false; called when already paused it leaves the whole state as it is,
\* so that pause(); pause() is pause(); and it never changes cash, shares,
\* trades, equitySeries or currentIndex.
PauseStopsDriver ==
    [][lastOp' = "pause" =>
        /\ ~isPlaying' /\ intervalId' = null /\ DOMAIN timers' = {}
        /\ UNCHANGED <<cash, shares, trades, equitySeries, currentIndex>>
        /\ ~isPlaying => UNCHANGED <<seriesVars, ledgerVars, playVars, loadVars,
                                     strategyName, speedMs, pending>>]_vars

\* C17: setSpeedMs(ms) preserves the playing status: a running simulation is
\* running afterwards with exactly one driver, whose interval is the new
\* speedMs; a paused one stays paused with no driver; and cash, shares,
\* trades, equitySeries and currentIndex are unchanged.
SetSpeedKeepsStatus ==
    [][lastOp' = "setSpeedMs" =>
        /\ isPlaying' = isPlaying
        /\ speedMs' \in SpeedChoices
        /\ isPlaying => /\ Cardinality(DOMAIN timers') = 1
                        /\ \A t \in DOMAIN timers' :
                               timers'[t] = speedMs' /\ intervalId' = Some(t)
        /\ ~isPlaying => DOMAIN timers' = {}
        /\ UNCHANGED <<cash, shares, trades, equitySeries, currentIndex>>]_vars

\* The transition completes a dataset load that failed.
LoadFailed ==
    \/ lastOp' = "loadDataset.failed"
    \/ /\ lastOp' \in {"loadDataset", "loadDataset.fetched",
                       "uploadCustomDataset.read", "loadFromCsvText"}
       /\ datasetError' # null

\* C18: a dataset load that fails in loadDataset, uploadCustomDataset or
\* loadFromCsvText sets datasetError to a message and leaves what was loaded
\* before intact: candles, the indicator series, currentDataset, cash, shares,
\* trades, equitySeries and currentIndex are unchanged.
FailedLoadKeepsState ==
    [][LoadFailed =>
        /\ datasetError' # null
        /\ UNCHANGED <<seriesVars, currentDataset, cash, shares, trades,
                       equitySeries, currentIndex>>]_vars

\* The ledger a run from reset() holds on reaching `index`, told from the
\* series and the strategy alone: the seed at the warm-up start, then one
\* decision per candle, a BUY filling all the whole shares the cash pays for
\* and a SELL liquidating the position.
RECURSIVE Replayed(_, _, _, _)
Replayed(series, rsi, strategy, index) ==
    IF index <= StartIndex(series)
    THEN [cash |-> 10000, shares |-> 0, trades |-> <<>>,
          equity |-> <<[timestamp |-> series[StartIndex(series)].timestamp,
                        value |-> 10000]>>]
    ELSE LET before == Replayed(series, rsi, strategy, index - 1)
             decision == decide(strategy, index, series, rsi)
             price == series[index].close
             buys == decision.action = "BUY" /\ before.cash >= price
             sells == ~buys /\ decision.action = "SELL" /\ before.shares > 0
             money == IF buys THEN before.cash % price
                      ELSE IF sells THEN before.cash + before.shares * price
                      ELSE before.cash
             held == IF buys THEN before.shares + before.cash \div price
                     ELSE IF sells THEN 0 ELSE before.shares
             trade == [index |-> index, type |-> decision.action, price |-> price,
                       reason |-> decision.reason]
         IN  [cash |-> money, shares |-> held,
              trades |-> IF buys \/ sells THEN Append(before.trades, trade)
                         ELSE before.trades,
              equity |-> Append(before.equity,
                                [timestamp |-> series[index].timestamp,
                                 value |-> money + held * price])]

\* C19: deterministic replay: on a fixed candle series under a fixed strategy
\* every run from reset() holds, at each index, the same trade log and the
\* same equity curve, whatever ran before, whatever the playback speed, and
\* whether the steps were manual or driver ticks.
ReplayIsDeterministic ==
    Length(candles) > 0 =>
        LET run == Replayed(candles, [i \in DOMAIN rsiSeries |-> rsiSeries[i].value],
                            strategyName, currentIndex)
        IN  /\ trades = run.trades
            /\ equitySeries = run.equity
            /\ cash = run.cash /\ shares = run.shares

\* A run driven at the faster speed has reached the last candle with a BUY
\* and a SELL in its log.
ReplayIsDeterministicWitness ==
    /\ lastOp = "tick" /\ speedMs = 100
    /\ Length(candles) >= 20 /\ currentIndex = Length(candles) - 1
    /\ Len(trades) = 2 /\ trades[2].type = "SELL"

\* C20: under BUY_AND_HOLD a run from reset() stepped to the end of a series
\* whose closes do not exceed the initial cash buys exactly once, at the
\* beginning, and never sells: the trade log ends as one BUY and no SELL.
BuyAndHoldBuysOnce ==
    (/\ strategyName = "BUY_AND_HOLD"
     /\ Length(candles) > 0 /\ currentIndex = Length(candles) - 1
     /\ steps > 0 /\ steps = currentIndex - StartIndex(candles))
        => /\ Len(trades) = 1
           /\ trades[1].type = "BUY"
           /\ trades[1].index <= StartIndex(candles) + 1

(***************************************************************************)
(* Properties of the decision engine                                       *)
(***************************************************************************)

\* The call of decide has returned; its arguments and its decision.
Returned == result # <<>>
Decided == result[1]
CallHasCandle == call.idx \in DOMAIN call.series
CallHasPrev == (call.idx - 1) \in DOMAIN call.series
CallCandle == call.series[call.idx]
CallPrev == call.series[call.idx - 1]

CrossoverStrategies == {"SMA_CROSSOVER", "EMA_CROSSOVER", "MACD"}
ShortField(strategy) ==
    CASE strategy = "SMA_CROSSOVER" -> "smaShort"
      [] strategy = "EMA_CROSSOVER" -> "emaShort"
      [] strategy = "MACD" -> "macdLine"
LongField(strategy) ==
    CASE strategy = "SMA_CROSSOVER" -> "smaLong"
      [] strategy = "EMA_CROSSOVER" -> "emaLong"
      [] strategy = "MACD" -> "macdSignal"

\* The two series of the called crossover strategy are defined on the
\* current candle, and on the previous one.
CurrentPairDefined ==
    /\ CallHasCandle
    /\ Defined(CallCandle[ShortField(call.strategy)])
    /\ Defined(CallCandle[LongField(call.strategy)])
PrevPairDefined ==
    /\ CallHasPrev
    /\ Defined(CallPrev[ShortField(call.strategy)])
    /\ Defined(CallPrev[LongField(call.strategy)])

\* C21: under SMA_CROSSOVER, EMA_CROSSOVER and MACD, decide returns BUY or
\* SELL only at an index where the two series of the strategy are defined on
\* both the current and the previous candle; at index 0, which has no
\* previous candle, it never signals.
CrossoverNeedsFourValues ==
    (Returned /\ call.strategy \in CrossoverStrategies /\ Decided.action \in {"BUY", "SELL"})
        => CurrentPairDefined /\ PrevPairDefined

\* A crossover call whose current candle has short above long while the
\* previous candle lacks its long value: the decision is HOLD.
CrossoverNeedsFourValuesWitness ==
    /\ Returned
    /\ call.strategy \in CrossoverStrategies
    /\ CurrentPairDefined
    /\ Val(CallCandle[ShortField(call.strategy)]) > Val(CallCandle[LongField(call.strategy)])
    /\ CallHasPrev
    /\ Defined(CallPrev[ShortField(call.strategy)])
    /\ ~Defined(CallPrev[LongField(call.strategy)])
    /\ Decided.action = "HOLD"

\* The candle fields a strategy reads; RSI reads rsi[idx], a number.
RequiredFields(strategy) ==
    CASE strategy \in CrossoverStrategies -> {ShortField(strategy), LongField(strategy)}
      [] strategy = "BOLLINGER_BANDS" -> {"bollingerUpper", "bollingerLower"}
      [] strategy = "STOCHASTIC" -> {"stochK", "stochD"}
      [] strategy = "MEAN_REVERSION" -> {"bollingerMiddle"}
      [] OTHER -> {}
LevelStrategies == {"BOLLINGER_BANDS", "STOCHASTIC", "MEAN_REVERSION"}
MissingOnCurrent ==
    CallHasCandle /\ \E f \in RequiredFields(call.strategy) : ~Defined(CallCandle[f])
MissingOnPrev ==
    CallHasPrev /\ \E f \in RequiredFields(call.strategy) : ~Defined(CallPrev[f])

\* C22 as stated: under every strategy but Buy & Hold, decide returns HOLD
\* when there is no previous candle or when a required indicator value is
\* undefined on the current or on the previous candle.
HoldWithoutPrevOrValue ==
    (/\ Returned
     /\ call.strategy \in StrategyNames \ {"BUY_AND_HOLD"}
     /\ ~CallHasPrev \/ MissingOnCurrent \/ MissingOnPrev)
        => Decided.action = "HOLD"

\* C22, amended: the crossover strategies hold without a previous candle or
\* with a required value undefined on either candle; Bollinger, Stochastic
\* and Mean Reversion hold when a required value is undefined on the current
\* candle, and do not consult the previous one.
HoldWithoutValue ==
    /\ (/\ Returned
        /\ call.strategy \in CrossoverStrategies
        /\ ~CallHasPrev \/ MissingOnCurrent \/ MissingOnPrev)
           => Decided.action = "HOLD"
    /\ (Returned /\ call.strategy \in LevelStrategies /\ MissingOnCurrent)
           => Decided.action = "HOLD"

\* A Stochastic call on a candle without %D, after a candle whose %K and %D
\* are both oversold: the decision is HOLD.
HoldWithoutValueWitness ==
    /\ Returned
    /\ call.strategy = "STOCHASTIC"
    /\ CallHasCandle /\ CallHasPrev
    /\ Defined(CallCandle.stochK) /\ Val(CallCandle.stochK) < 20 * Scale
    /\ ~Defined(CallCandle.stochD)
    /\ Defined(CallPrev.stochK) /\ Val(CallPrev.stochK) < 20 * Scale
    /\ Defined(CallPrev.stochD) /\ Val(CallPrev.stochD) < 20 * Scale
    /\ Decided.action = "HOLD"

\* Short and long of the called crossover strategy, now and at prev.
ShortNow == Val(CallCandle[ShortField(call.strategy)])
LongNow == Val(CallCandle[LongField(call.strategy)])
ShortPrev == Val(CallPrev[ShortField(call.strategy)])
LongPrev == Val(CallPrev[LongField(call.strategy)])
CrossedUp == ShortPrev <= LongPrev /\ ShortNow > LongNow
CrossedDown == ShortPrev >= LongPrev /\ ShortNow < LongNow

\* C23: a crossover strategy with all four values defined returns BUY
\* exactly when short <= long at prev and short > long now, SELL exactly when
\* short >= long at prev and short < long now, and HOLD otherwise; the two
\* conditions never hold together.
CrossoverRule ==
    (Returned /\ call.strategy \in CrossoverStrategies
              /\ CurrentPairDefined /\ PrevPairDefined)
        => /\ Decided.action = "BUY" <=> CrossedUp
           /\ Decided.action = "SELL" <=> CrossedDown
           /\ Decided.action = "HOLD" <=> ~CrossedUp /\ ~CrossedDown
           /\ ~(CrossedUp /\ CrossedDown)

\* A crossover call where short equals long at prev and lies above it now:
\* the decision is BUY.
CrossoverRuleWitness ==
    /\ Returned
    /\ call.strategy \in CrossoverStrategies
    /\ CurrentPairDefined /\ PrevPairDefined
    /\ ShortPrev = LongPrev /\ ShortNow > LongNow
    /\ Decided.action = "BUY"

\* A Bollinger call on a candle with both bands; the close against them.
BollingerCall ==
    /\ Returned
    /\ call.strategy = "BOLLINGER_BANDS"
    /\ CallHasCandle
    /\ Defined(CallCandle.bollingerUpper) /\ Defined(CallCandle.bollingerLower)
AtOrBelowLower == CallCandle.close * Scale <= Val(CallCandle.bollingerLower)
AtOrAboveUpper == CallCandle.close * Scale >= Val(CallCandle.bollingerUpper)

\* C24 as stated: with both bands defined, BOLLINGER_BANDS returns BUY
\* whenever close <= lower and SELL whenever close >= upper.
BollingerBuysAndSells ==
    BollingerCall
        => /\ AtOrBelowLower => Decided.action = "BUY"
           /\ AtOrAboveUpper => Decided.action = "SELL"

\* C24, amended: with both bands defined, BOLLINGER_BANDS returns BUY
\* whenever close <= lower, and SELL whenever close >= upper and
\* close > lower; where the bands coincide with the close it returns BUY.
BollingerBuysFirst ==
    BollingerCall
        => /\ AtOrBelowLower => Decided.action = "BUY"
           /\ (AtOrAboveUpper /\ ~AtOrBelowLower) => Decided.action = "SELL"

\* A Bollinger call on a flat window, lower = upper = close: the decision
\* is BUY.
BollingerBuysFirstWitness ==
    /\ BollingerCall
    /\ AtOrBelowLower /\ AtOrAboveUpper
    /\ Decided.action = "BUY"

\* C26: under a strategy name decide does not know, decide returns HOLD with
\* a reason, and a step() changes neither cash, shares nor the trade log; the
\* step shows the reason as its explanation.
UnknownStrategyHolds ==
    [][(Stepped /\ strategyName \notin StrategyNames)
       => /\ NextDecision.action = "HOLD"
          /\ NextDecision.reason # <<>>
          /\ lastExplanation' = NextDecision.reason
          /\ UNCHANGED <<cash, shares, trades>>]_vars

\* Two steps have executed under an unknown strategy: the ledger is as it
\* was initialised, the curve has grown.
UnknownStrategyHoldsWitness ==
    /\ lastOp \in {"step", "tick"} /\ steps = 2
    /\ strategyName \notin StrategyNames
    /\ LastDecision.action = "HOLD"
    /\ lastExplanation = LastDecision.reason
    /\ cash = InitialCash /\ shares = 0 /\ trades = <<>>
    /\ Len(equitySeries) = 3

\* The window of the RSI the loader computes, and the RSI values of the store.
RsiWindow == 14
RsiValues == [i \in DOMAIN rsiSeries |-> rsiSeries[i].value]

\* C25: on the loaded series, decide under RSI returns HOLD at every index
\* below 14, where the RSI array holds its neutral 50; hence no trade of an
\* RSI run has an index below 14.
RsiWarmUpNeverSignals ==
    /\ \A idx \in 0 .. RsiWindow - 1 :
           /\ idx \in DOMAIN rsiSeries => rsiSeries[idx].value = 50 * Scale
           /\ decide("RSI", idx, candles, RsiValues).action = "HOLD"
    /\ strategyName = "RSI"
           => \A k \in 1 .. Len(trades) : trades[k].index >= RsiWindow

\* An RSI run has stepped onto a candle below index 14 whose close rose from
\* the candle before: the step held and the trade log is empty.
RsiWarmUpNeverSignalsWitness ==
    /\ strategyName = "RSI"
    /\ lastOp \in {"step", "tick"} /\ steps > 0
    /\ currentIndex > 0 /\ currentIndex < RsiWindow
    /\ candles[currentIndex].close > candles[currentIndex - 1].close
    /\ LastDecision.action = "HOLD"
    /\ trades = <<>>

\* C27: whenever the candle series is non-empty, portfolioValue equals cash
\* plus shares times the close of the current candle, and equals the value
\* of the last point of equitySeries.
PortfolioValueIsMarkedToMarket ==
    Length(candles) > 0
        => /\ currentIndex \in DOMAIN candles
           /\ portfolioValue = cash + shares * candles[currentIndex].close
           /\ Len(equitySeries) > 0
           /\ portfolioValue = equitySeries[Len(equitySeries)].value

\* A run holds shares bought earlier and has stepped onto a candle with
\* another close, so that the portfolio is worth less than it started with.
PortfolioValueIsMarkedToMarketWitness ==
    /\ lastOp \in {"step", "tick"}
    /\ shares > 0 /\ Len(trades) > 0
    /\ LastTrade.index < currentIndex
    /\ candles[currentIndex].close # LastTrade.price
    /\ portfolioValue < InitialCash
    /\ portfolioValue = equitySeries[Len(equitySeries)].value

\* C28: a step that records a BUY at a price p > 0 leaves 0 <= cash < p: the
\* BUY spends all the cash that buys whole shares.
BuyLeavesLessThanOneShare ==
    [][(Stepped /\ OneTradeAppended("BUY") /\ TargetPrice > 0)
       => (0 <= cash' /\ cash' < TargetPrice)]_vars

\* The last step bought at the current candle and left some cash, less than
\* the price of one share.
BuyLeavesLessThanOneShareWitness ==
    /\ lastOp \in {"step", "tick"}
    /\ Len(trades) > 0
    /\ LastTrade.type = "BUY" /\ LastTrade.index = currentIndex
    /\ LastTrade.price = candles[currentIndex].close
    /\ shares > 0
    /\ 0 < cash /\ cash < LastTrade.price

(***************************************************************************)
(* Properties of the indicator pipeline                                    *)
(***************************************************************************)

\* What the returned call returned.
Output == result[1]

SmaCall == Returned /\ call.fn = "computeSMA"

\* C29: computeSMA(values, window) returns an array of the length of values,
\* undefined at every i < window - 1 and, at every i >= window - 1, the mean
\* of values[i - window + 1 .. i] (on the fixed-point grid: the sum of the
\* window divided by window, rounded down).
SmaIsWindowMean ==
    SmaCall =>
        LET values == call.args[1]
            window == call.args[2]
        IN  /\ DOMAIN Output = DOMAIN values
            /\ \A i \in DOMAIN Output :
                   IF i < window - 1
                   THEN Output[i] = undefined
                   ELSE Output[i] = Some(SumRange(values, i - window + 1, i) \div window)

\* SMA([1, 2, 3, 4, 5], 3) has returned [undefined, undefined, 2, 3, 4].
SmaIsWindowMeanWitness ==
    /\ SmaCall
    /\ call.args = <<ToArray(<<1 * Scale, 2 * Scale, 3 * Scale, 4 * Scale, 5 * Scale>>), 3>>
    /\ Output = ToArray(<<undefined, undefined, Some(2 * Scale), Some(3 * Scale),
                          Some(4 * Scale)>>)

\* The length of the input of the returned call, the period its outputs wait
\* for (the slow period of MACD, kPeriod of Stochastic), and its output arrays.
InputLength ==
    IF call.fn = "computeStochastic" THEN Length(call.args[3]) ELSE Length(call.args[1])
CallWindow ==
    CASE call.fn = "computeMACD" -> call.args[3]
      [] call.fn = "computeStochastic" -> call.args[4]
      [] OTHER -> call.args[2]
OutputArrays ==
    CASE call.fn = "computeMACD" -> {Output.macdLine, Output.signal, Output.histogram}
      [] call.fn = "computeBollingerBands" -> {Output.upper, Output.middle, Output.lower}
      [] call.fn = "computeStochastic" -> {Output.stochK, Output.stochD}
      [] OTHER -> {Output}
SameLengthAsInput == \A a \in OutputArrays : Length(a) = InputLength

\* No entry of the output is a defined value; an entry of computeRSI is a
\* number, never undefined.
NoDefinedEntry ==
    IF call.fn = "computeRSI" THEN Length(Output) = 0
    ELSE \A a \in OutputArrays : \A i \in DOMAIN a : a[i] = undefined

\* C30 as stated: every indicator function returns an empty output for an
\* empty input and an output as long as its input otherwise, and no entry of
\* the output is a defined value when the series is shorter than the window.
ShortSeriesAllUndefined ==
    Returned
        => /\ SameLengthAsInput
           /\ InputLength < CallWindow => NoDefinedEntry

\* C30, amended: every indicator function returns an empty output for an
\* empty input and an output as long as its input otherwise; when the series
\* is shorter than the window, no entry of SMA, EMA, MACD, Bollinger or
\* Stochastic is a defined value, and every entry of RSI is the neutral 50.
ShortSeriesUndefinedOrNeutral ==
    Returned
        => /\ SameLengthAsInput
           /\ InputLength < CallWindow
                  => IF call.fn = "computeRSI"
                     THEN \A i \in DOMAIN Output : Output[i] = 50 * Scale
                     ELSE NoDefinedEntry

\* computeRSI has returned for three closes falling from 5 to 1 and a window
\* of 6: three entries, all 50.
ShortSeriesUndefinedOrNeutralWitness ==
    /\ Returned
    /\ call.fn = "computeRSI"
    /\ call.args = <<ToArray(<<5 * Scale, 2 * Scale, 1 * Scale>>), 6>>
    /\ Output = ToArray(<<50 * Scale, 50 * Scale, 50 * Scale>>)

(***************************************************************************)
(* Properties of the loaded series                                         *)
(***************************************************************************)

\* The two states a returned pair of builds returned, and the indices up to
\* which the two texts hold the same rows.
Left == result[1].left
Right == result[1].right
PairBuilt == Returned /\ Left.ok /\ Right.ok
AgreeUpTo(i) ==
    /\ i + 1 <= Len(call.left) /\ i + 1 <= Len(call.right)
    /\ \A j \in 1 .. (i + 1) : call.left[j] = call.right[j]
RsiOf(built) == [i \in DOMAIN built.rsiSeries |-> built.rsiSeries[i].value]

\* C31: for two candle series that agree on indices 0 .. i, the decorated
\* candle at index i (SMA, EMA, MACD line, signal and histogram, Bollinger
\* bands, Stochastic %K and %D) and the RSI at index i are the same in both,
\* and decide at index i returns the same action for both under every strategy.
NoLookahead ==
    PairBuilt =>
        \A i \in DOMAIN Left.candles :
            AgreeUpTo(i) =>
                /\ Left.candles[i] = Right.candles[i]
                /\ Left.rsiSeries[i] = Right.rsiSeries[i]
                /\ \A strategy \in StrategyNames :
                       decide(strategy, i, Left.candles, RsiOf(Left)).action
                         = decide(strategy, i, Right.candles, RsiOf(Right)).action

\* Two texts of 44 rows that agree on indices 0 .. 33 and differ from 34 on:
\* the candles at 33, whose MACD signal is defined, are equal; the short
\* SMA at 34 differs.
NoLookaheadWitness ==
    /\ PairBuilt
    /\ Len(call.left) = 44 /\ Len(call.right) = 44
    /\ AgreeUpTo(33) /\ ~AgreeUpTo(34)
    /\ Defined(Left.candles[33].macdSignal)
    /\ Left.candles[33] = Right.candles[33]
    /\ Left.candles[34].smaShort # Right.candles[34].smaShort

\* C32: for every candle series the loader accepts and every index where
\* Stochastic %K is defined, 0 <= %K <= 100.
StochKWithinRange ==
    PairBuilt =>
        \A i \in DOMAIN Left.candles :
            Defined(Left.candles[i].stochK)
                => /\ 0 <= Val(Left.candles[i].stochK)
                   /\ Val(Left.candles[i].stochK) <= 100 * Scale

\* The highest high and the lowest low of the 14 candles ending at index i.
StochWindow(i) == (i - 13) .. i
HighestHigh(series, i) == SetMax({series[j].high : j \in StochWindow(i)})
LowestLow(series, i) == SetMin({series[j].low : j \in StochWindow(i)})
NoRange(series, i) == HighestHigh(series, i) = LowestLow(series, i)

\* C33 as stated: at every index where %K is defined, %K equals 50 if and
\* only if the highest high of the trailing 14-candle window equals its
\* lowest low.
StochKFiftyIffNoRange ==
    PairBuilt =>
        \A i \in DOMAIN Left.candles :
            Defined(Left.candles[i].stochK)
                => (Val(Left.candles[i].stochK) = 50 * Scale <=> NoRange(Left.candles, i))

\* C33, amended: at every index where %K is defined, %K equals 50 if the
\* highest high of the trailing 14-candle window equals its lowest low; %K
\* is 50 as well when the close lies midway between the two.
StochKFiftyIfNoRange ==
    PairBuilt =>
        \A i \in DOMAIN Left.candles :
            (Defined(Left.candles[i].stochK) /\ NoRange(Left.candles, i))
                => Val(Left.candles[i].stochK) = 50 * Scale

\* A series whose candles all have high = low = close: %K is defined at
\* index 13 and reads 50.
StochKFiftyIfNoRangeWitness ==
    /\ PairBuilt
    /\ 13 \in DOMAIN Left.candles
    /\ NoRange(Left.candles, 13)
    /\ Left.candles[13].stochK = Some(50 * Scale)
    /\ ~Defined(Left.candles[12].stochK)

\* The defined entries of a field of the candles from index `first` on, as
\* the compacted array the signal is computed from.
CompactFrom(series, field, first) ==
    Array([k \in 0 .. (Length(series) - 1 - first) |-> Val(series[k + first][field])])

\* The alignment of MACD and Stochastic on one decorated series.
Aligned(series) ==
    LET n == Length(series)
        signal == computeEMA(CompactFrom(series, "macdLine", 25), 9)
        stochD == computeSMA(CompactFrom(series, "stochK", 13), 3)
    IN  \A i \in DOMAIN series :
            /\ Defined(series[i].macdLine) <=> i >= 25
            /\ Defined(series[i].macdSignal) <=> i >= 33
            /\ i >= 25 => series[i].macdSignal = signal[i - 25]
            /\ Defined(series[i].macdHistogram)
                   <=> (Defined(series[i].macdLine) /\ Defined(series[i].macdSignal))
            /\ Defined(series[i].macdHistogram)
                   => Val(series[i].macdHistogram)
                        = Val(series[i].macdLine) - Val(series[i].macdSignal)
            /\ Defined(series[i].stochK) <=> i >= 13
            /\ Defined(series[i].stochD) <=> i >= 15
            /\ i >= 13 => series[i].stochD = stochD[i - 13]

\* C34: the MACD line is defined exactly at indices >= 25; the signal at
\* index i is the EMA(9) of the compacted line values at position i - 25,
\* hence defined exactly at indices >= 33 and never where the line is
\* undefined; the histogram is defined exactly where line and signal are,
\* and equals line - signal.  Stochastic %D is compacted and re-expanded the
\* same way from %K, and is defined exactly at indices >= 15.
MacdAndStochasticAligned ==
    PairBuilt => Aligned(Left.candles) /\ Aligned(Right.candles)

\* A series of 44 candles: line from 25 on, signal and histogram from 33
\* on, %D from 15 on, and ahead of each an index without it.
MacdAndStochasticAlignedWitness ==
    /\ PairBuilt
    /\ Length(Left.candles) = 44
    /\ ~Defined(Left.candles[24].macdLine) /\ Defined(Left.candles[25].macdLine)
    /\ ~Defined(Left.candles[32].macdSignal) /\ Defined(Left.candles[33].macdSignal)
    /\ ~Defined(Left.candles[32].macdHistogram) /\ Defined(Left.candles[33].macdHistogram)
    /\ ~Defined(Left.candles[14].stochD) /\ Defined(Left.candles[15].stochD)

StrictlyIncreasing(series) ==
    \A i \in DOMAIN series : (i + 1) \in DOMAIN series => series[i].close < series[i + 1].close
StrictlyDecreasing(series) ==
    \A i \in DOMAIN series : (i + 1) \in DOMAIN series => series[i].close > series[i + 1].close

\* The RSI of a built state reads `level` from index 14 on and 50 before.
RsiReads(built, level) ==
    \A i \in DOMAIN built.rsiSeries :
        built.rsiSeries[i].value = IF i >= RsiWindow THEN level ELSE 50 * Scale

RsiOnMonotone(built) ==
    Length(built.candles) > RsiWindow
        => /\ StrictlyIncreasing(built.candles) => RsiReads(built, 100 * Scale)
           /\ StrictlyDecreasing(built.candles) => RsiReads(built, 0)

\* C35: for a strictly increasing close series of length > 14, computeRSI
\* yields 100 at every index >= 14; for a strictly decreasing one it yields
\* 0 at every index >= 14; in both cases the indices below 14 hold 50.
RsiSaturatesOnMonotone ==
    PairBuilt => RsiOnMonotone(Left) /\ RsiOnMonotone(Right)

\* Sixteen rising closes, and the same closes cut to the first fifteen: the
\* RSI of both reads 50 at index 13 and 100 from index 14 on.
RsiSaturatesOnMonotoneWitness ==
    /\ PairBuilt
    /\ Length(Left.candles) = 16 /\ StrictlyIncreasing(Left.candles)
    /\ Length(Right.candles) = 15 /\ StrictlyIncreasing(Right.candles)
    /\ Left.rsiSeries[13].value = 50 * Scale
    /\ Left.rsiSeries[14].value = 100 * Scale
    /\ Left.rsiSeries[15].value = 100 * Scale
    /\ Right.rsiSeries[14].value = 100 * Scale

(***************************************************************************)
(* Further properties of the driver and the ledger                         *)
(***************************************************************************)

\* C36: in every reachable state, isPlaying is true if and only if a
\* periodic driver is live, that is, the module-level intervalId is not null.
PlayingIffDriver == isPlaying <=> intervalId # null

\* C37: in the trade log of a run since the last reset, the first trade is
\* a BUY and no SELL immediately follows another SELL; consecutive BUYs occur.
TradesAlternateFromBuy ==
    /\ Len(trades) > 0 => trades[1].type = "BUY"
    /\ \A k \in 1 .. (Len(trades) - 1) :
           ~(trades[k].type = "SELL" /\ trades[k + 1].type = "SELL")

\* A trade log that holds a BUY, a SELL after it, and two BUYs in a row.
TradesAlternateFromBuyWitness ==
    /\ \E k \in 1 .. (Len(trades) - 1) :
           trades[k].type = "BUY" /\ trades[k + 1].type = "SELL"
    /\ \E k \in 1 .. (Len(trades) - 1) :
           trades[k].type = "BUY" /\ trades[k + 1].type = "BUY"

\* C38: a step that records a BUY or a SELL at price p conserves the value
\* of the portfolio at p: cash + shares * p is the same before and after.
TradeConservesValue ==
    [][(Stepped /\ (OneTradeAppended("BUY") \/ OneTradeAppended("SELL")))
       => cash' + shares' * TargetPrice = cash + shares * TargetPrice]_vars

\* The last step sold, at the current candle, shares bought at another
\* price: the cash is the whole value of the portfolio.
TradeConservesValueWitness ==
    /\ lastOp \in {"step", "tick"}
    /\ Len(trades) >= 2
    /\ LastTrade.type = "SELL" /\ LastTrade.index = currentIndex
    /\ trades[Len(trades) - 1].type = "BUY"
    /\ trades[Len(trades) - 1].price # LastTrade.price
    /\ shares = 0 /\ cash = portfolioValue /\ cash # InitialCash

\* On a non-empty series the current index lies between the warm-up start
\* index and the last index, and every trade was made after the start index
\* and no later than the current index.
IndexInRange ==
    Length(candles) > 0
        => /\ StartIndex(candles) <= currentIndex
           /\ currentIndex <= Length(candles) - 1
           /\ \A k \in 1 .. Len(trades) :
                  /\ trades[k].index > StartIndex(candles)
                  /\ trades[k].index <= currentIndex

\* C39: for a non-empty candle series, every reachable state has warm-up
\* start index <= currentIndex <= last index and every trade of the log has
\* an index above the start index and at most currentIndex; currentIndex
\* never decreases except by a reset, a strategy change or a load.
IndexStaysInRun ==
    /\ []IndexInRange
    /\ [][~(Reinitialised \/ LoadSucceeded) => currentIndex' >= currentIndex]_vars

\* A run on a series whose warm-up ends at index 19 has stepped past it and
\* traded twice, the last time before the current candle.
IndexStaysInRunWitness ==
    /\ lastOp \in {"step", "tick"}
    /\ Length(candles) > 0 /\ StartIndex(candles) = 19
    /\ currentIndex > StartIndex(candles) + 1
    /\ Len(trades) >= 2
    /\ LastTrade.index < currentIndex
    /\ trades[1].index > StartIndex(candles)

====
